------------------------------- MODULE Alphas -------------------------------
(***************************************************************************)
(* The alphas of aqc/strategies/ that can be built and asked for a signal, *)
(* imbalance, liquidity and microprice (the constructor of the order-flow  *)
(* alpha and every signal of the regime-aware one raise), and AlphaEnsemble*)
(* with ModelBlender, which blends them (aqc/ensemble).  An alpha is       *)
(* trained and evaluated on one set of data and then emits signals on      *)
(* another.  Scores are in units of 1 / 300, z-scores in tenths.           *)
(***************************************************************************)
EXTENDS Integers, FiniteSetsExt, Functions

CONSTANTS
  Targets,      \* the sets of target_dir values a training set may hold
  DepthZ,       \* z-scores of the depth
  SpreadZ,      \* z-scores of the spread
  MicropriceZ,  \* z-scores of the microprice's deviation
  CachedMetrics,\* cached metrics: the information ratio and max_drawdown_pct
  BlendMethods  \* "EQUAL_WEIGHT", "INFORMATION_RATIO", "INVERSE_VOLATILITY"

VARIABLES
  targets,   \* the target values the imbalance alpha was fitted to, {} if unfitted
  cached,    \* of each alpha: its cached metrics, or Unevaluated
  method,    \* the ensemble's blending method
  weights,   \* its weights, in parts of their sum
  signals,   \* the last signal of each alpha, and of the ensemble
  scores     \* the scores they came from

alphasVars == <<targets, cached, method, weights, signals, scores>>

Subs == {"imbalance", "liquidity", "microprice"}
One == 300
Unevaluated == [ratio |-> 0, dd |-> 10]   \* what the blender takes for None

Clamp(x) == Max({-One, Min({One, x})})
Abs(x) == Max({x, -x})
Signal(direction, strength, confidence) ==
  [direction |-> direction, strength |-> strength, confidence |-> confidence]
Flat == Signal(0, 0, 150)   \* AlphaSignal's defaults

----------------------------------------------------------------------------
(* The directions a score beyond a threshold gives, in generate_signal,    *)
(* and what evaluate makes of a prediction.                                *)
DirectionOf(score, threshold) ==
  IF score > threshold THEN 1 ELSE IF score < -threshold THEN -1 ELSE 0

ThresholdOfEnsemble(a) == 150   \* a slip: one threshold for all

ThresholdOf(a) == IF a = "imbalance" THEN 30 ELSE 150

Evaluated(a, score) == DirectionOf(score, ThresholdOf(a))

(* ImbalancePredictionSuite: targets within {-1, 0, 1} are fitted as 0, 1  *)
(* and 2; with three classes the score is P(up) - P(down), with two the    *)
(* probability of the greater less that of the lesser, whatever they are.  *)
(* (p: the probability of each target, in tenths.)                         *)
ImbalanceScore(p) == 30 * (p[Max(targets)] - p[Min(targets)])

Probabilities(classes) ==
  {p \in [classes -> {0, 5, 10}] : SumFunction(p) = 10}

(* OrderbookImbalanceAlpha.generate_signal.                                *)
ImbalanceSignal(score) ==
  Signal(DirectionOf(score, 30), score, Min({2 * Abs(score), One}))

(* LiquidityAlpha: predict, and generate_signal, which stays flat while    *)
(* the depth is withdrawn.                                                 *)
LiquidityScore(spread, depth) == -Clamp(((One \div 10) * (spread - depth)) \div 4)

LiquiditySignal(score, depth) ==
  IF depth < -20 THEN Signal(0, score, One)
  ELSE Signal(DirectionOf(score, 150), score, IF DirectionOf(score, 150) = 0 THEN 0 ELSE Abs(score))

(* MicropriceAlpha: the direction is that of the z-score itself.           *)
MicropriceScore(z) == Clamp(10 * z)

MicropriceSignal(z) ==
  Signal(IF z > 15 THEN 1 ELSE IF z < -15 THEN -1 ELSE 0, MicropriceScore(z), Min({10 * Abs(z), One}))

(* ModelBlender.fit_weights: the parts, by what each alpha's cached        *)
(* metrics say; by information ratio equal parts if none is positive.      *)
Part(a) ==
  IF method = "EQUAL_WEIGHT" THEN 1
  ELSE IF method = "INFORMATION_RATIO" THEN Max({0, cached[a].ratio})
  ELSE IF cached[a].dd = 0 THEN 200000 ELSE 20 \div cached[a].dd

FittedWeights ==
  IF \A a \in Subs : Part(a) = 0 THEN [a \in Subs |-> 1] ELSE [a \in Subs |-> Part(a)]

(* blend and AlphaEnsemble.generate_signal, from the strengths of the      *)
(* alphas' signals, rounded towards zero here.                             *)
Blend(strength) ==
  LET sum == SumFunction([a \in Subs |-> weights[a] * strength[a]])
      whole == SumFunction(weights)
  IN  IF sum >= 0 THEN sum \div whole ELSE -((-sum) \div whole)

EnsembleSignal(score) == Signal(DirectionOf(score, 150), score, Abs(score))

----------------------------------------------------------------------------
AlphasInit ==
  /\ targets = {} /\ method \in BlendMethods
  /\ cached = [a \in Subs |-> Unevaluated]
  /\ weights = [a \in Subs |-> 1]
  /\ signals = [a \in Subs \cup {"ensemble"} |-> Flat]
  /\ scores = [a \in Subs |-> 0]

(* AlphaEnsemble.fit: the alphas not fitted yet are, the heuristic ones    *)
(* are from the start; each one that can predict is evaluated; then the    *)
(* weights are fitted.  A fit or an evaluation that raises is logged.      *)
Fit ==
  /\ \E t \in Targets \cup {{}} : targets' = IF targets = {} THEN t ELSE targets
  /\ \E evaluated \in SUBSET Subs :
       /\ "imbalance" \in evaluated => targets' # {}
       /\ \E m \in [evaluated -> CachedMetrics] :
            cached' = [a \in Subs |-> IF a \in evaluated THEN m[a] ELSE cached[a]]
  /\ UNCHANGED <<method, signals, scores>>
  /\ weights' = FittedWeights'

(* emit_signal of the ensemble, on one more snapshot of the book: every    *)
(* alpha is asked, and the ensemble blends what they say.  The imbalance   *)
(* alpha is silent until it is fitted, the others until there are as many  *)
(* snapshots as they look back.                                            *)
Snapshot(enough, score, depth, spread, z) ==
  LET subs == [imbalance |-> IF targets = {} THEN Flat ELSE ImbalanceSignal(score),
               liquidity |-> IF ~enough THEN Flat
                             ELSE LiquiditySignal(LiquidityScore(spread, depth), depth),
               microprice |-> IF enough THEN MicropriceSignal(z) ELSE Flat]
      strength == [a \in Subs |-> subs[a].strength]
  IN  /\ scores' = strength
      /\ signals' = [a \in Subs \cup {"ensemble"} |->
                       IF a = "ensemble" THEN EnsembleSignal(Blend(strength)) ELSE subs[a]]
      /\ UNCHANGED <<targets, cached, method, weights>>

ImbalanceScores ==
  IF targets = {} THEN {0} ELSE {ImbalanceScore(p) : p \in Probabilities(targets)}

Emit ==
  \E enough \in BOOLEAN, score \in ImbalanceScores, depth \in DepthZ, spread \in SpreadZ,
     z \in MicropriceZ : Snapshot(enough, score, depth, spread, z)

AlphasNext == Fit \/ Emit

AlphasSpec == AlphasInit /\ [][AlphasNext]_alphasVars

----------------------------------------------------------------------------
(* What an alpha is evaluated on is what it trades: the direction of its   *)
(* signal is the one its evaluate gives the same score.  A liquidity alpha *)
(* that stays out is not short or long for it: it is evaluated on a trade  *)
(* it does not make.                                                       *)
DirectionsAgree ==
  \A a \in Subs :
    \/ signals[a].direction = Evaluated(a, scores[a])
    \/ a = "liquidity" /\ signals[a].direction = 0 /\ signals[a].confidence = One

(* The ensemble says nothing that its alphas do not: its strength is no    *)
(* further out than theirs, its direction not against all of theirs; and   *)
(* every signal is one that AlphaSignal takes.                             *)
BlendIsConvex ==
  /\ signals["ensemble"].strength <= Max({signals[a].strength : a \in Subs})
  /\ signals["ensemble"].strength >= Min({signals[a].strength : a \in Subs})
  /\ \A a \in DOMAIN signals : /\ signals[a].strength \in -One..One
                               /\ signals[a].confidence \in 0..One
                               /\ signals[a].direction * signals[a].strength >= 0

(* Alphas are scored on what they trade, and the ensemble says no more.    *)
ScoredAsTraded == DirectionsAgree /\ BlendIsConvex
=============================================================================
