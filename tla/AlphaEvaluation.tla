--------------------------- MODULE AlphaEvaluation ---------------------------
(***************************************************************************)
(* How alphas are measured and compared (aqc/alpha/): the metrics that     *)
(* AlphaMetrics.from_predictions draws from predictions and outcomes       *)
(* (alpha_base.py), the Pareto frontier of AlphaRanker (alpha_ranker.py)   *)
(* and the half-life of AlphaDecayMonitor (alpha_decay_monitor.py).        *)
(*                                                                         *)
(* Predictions are signs, outcomes and signal returns whole numbers.  Of   *)
(* the Sharpe ratio only the sign is kept; correlations are left out but   *)
(* for the information coefficients by lag, which are given by their       *)
(* logarithms to base 2.                                                   *)
(***************************************************************************)
EXTENDS Integers, Sequences, FiniteSetsExt, SequencesExt, Selections

CONSTANTS
  Observations,  \* pairs <<prediction, actual>>
  MaxRows,
  Others,        \* metrics of other alphas: [profit, risk]
  MaxOthers,
  Exponents,     \* the logarithms of the information coefficients
  MaxLag

MissingRow == <<0, 0, "NaN">>
NoIc == -100           \* an information coefficient that is not positive
NotANumber == -200     \* one of constant predictions; max() takes any other for it
PositiveInfinity == 1000

ASSUME EvaluationAssumption ==
  /\ Observations \subseteq Int \X Int
  /\ Others \subseteq [profit : Int, risk : Int]
  /\ Exponents \subseteq Int /\ \A e \in Exponents : NoIc + 1 < e
  /\ MaxLag \in Nat /\ MaxLag + 1 < PositiveInfinity

VARIABLES
  observed,      \* predictions and actuals of an alpha, so far
  entries,       \* AlphaRanker._entries: its objectives and those of others
  ic_by_lag      \* what compute_ic_decay found, from lag 0 on

evalVars == <<observed, entries, ic_by_lag>>

Sign(n) == IF n > 0 THEN 1 ELSE IF n < 0 THEN -1 ELSE 0
Absolute(n) == IF n < 0 THEN -n ELSE n
CumSum(s) == [i \in DOMAIN s |-> SumFunction(Restrict(s, 1..i))]

----------------------------------------------------------------------------
(* from_predictions, over the rows with both values.                       *)
Aligned == Select(observed, {i \in DOMAIN observed : observed[i] # MissingRow})
SignalReturns == [i \in DOMAIN Aligned |-> Sign(Aligned[i][1]) * Aligned[i][2]]
Constant(s) == \A i, j \in DOMAIN s : s[i] = s[j]

SignalProfit == SumFunction(Restrict(SignalReturns, {i \in DOMAIN SignalReturns : SignalReturns[i] > 0}))
SignalLoss == -SumFunction(Restrict(SignalReturns, {i \in DOMAIN SignalReturns : SignalReturns[i] < 0}))

(* The drawdown of the cumulated returns from their running maximum, which *)
(* does not count what the first row lost.  (Slip: from the maximum of     *)
(* the whole curve, the rows to come included.)                            *)
DrawdownFromTop ==
  LET pnl == CumSum(SignalReturns)
  IN  -Min({pnl[i] - Max({pnl[j] : j \in DOMAIN pnl}) : i \in DOMAIN pnl})

SignalDrawdown ==
  LET pnl == CumSum(SignalReturns)
  IN  -Min({pnl[i] - Max({pnl[j] : j \in 1..i}) : i \in DOMAIN pnl})

(* The changes of direction; the first row has none.                       *)
DirectionChanges ==
  [i \in DOMAIN Aligned |->
     IF i = 1 THEN 0 ELSE Absolute(Sign(Aligned[i][1]) - Sign(Aligned[i - 1][1]))]

Unmeasured == [sharpe |-> 0, hits |-> 0, profit_factor |-> 0, drawdown |-> 0, calmar |-> 0,
               turnover |-> 0, n_signals |-> 0]

SharpeSign == IF Constant(SignalReturns) THEN 0 ELSE Sign(SumFunction(SignalReturns))

FromPredictions ==
  IF Len(Aligned) < 5 THEN Unmeasured
  ELSE [sharpe |-> SharpeSign,
        hits |-> Cardinality({i \in DOMAIN Aligned : Sign(Aligned[i][1]) * Sign(Aligned[i][2]) = 1}),
        profit_factor |-> IF SignalLoss > 0 THEN (100 * SignalProfit) \div SignalLoss ELSE 99900,
        drawdown |-> SignalDrawdown,
        calmar |-> IF SignalDrawdown > 0 THEN SharpeSign ELSE 0,
        turnover |-> SumFunction(DirectionChanges),
        n_signals |-> Cardinality({i \in DOMAIN Aligned : DirectionChanges[i] > 0})]

----------------------------------------------------------------------------
(* pareto_frontier, of a profit to maximise and a risk to minimise.        *)
Dominates(a, b) ==
  /\ a.profit >= b.profit /\ a.risk <= b.risk
  /\ a.profit > b.profit \/ a.risk < b.risk

ParetoFrontier ==
  {i \in DOMAIN entries : \A j \in DOMAIN entries \ {i} : ~Dominates(entries[j], entries[i])}

----------------------------------------------------------------------------
(* estimate_halflife: the first lag whose IC is under half the peak, which *)
(* may lie before the peak; half of it is one less in logarithms.  Nothing *)
(* compares with an IC that is no number, but max() begins with the first. *)
PeakIc ==
  IF ic_by_lag[1] = NotANumber THEN NotANumber
  ELSE Max({ic_by_lag[lag] : lag \in DOMAIN ic_by_lag})

Faded ==
  {lag \in DOMAIN ic_by_lag : ic_by_lag[lag] # NotANumber /\ ic_by_lag[lag] < PeakIc - 1}

EstimateHalflife ==
  IF ic_by_lag = <<>> THEN PositiveInfinity
  ELSE IF PeakIc = NoIc THEN 0
  ELSE IF Faded = {} THEN PositiveInfinity ELSE Min(Faded) - 1

(* _decay_rate: minus the slope of the logarithms over the lags whose IC   *)
(* is positive, at least three; not below 0.  Only whether it is positive  *)
(* is kept.                                                                *)
Lags == {lag \in DOMAIN ic_by_lag : ic_by_lag[lag] \notin {NoIc, NotANumber}}

DecayRatePositive ==
  /\ Cardinality(Lags) >= 3
  /\ Cardinality(Lags) * SumFunction([lag \in Lags |-> lag * ic_by_lag[lag]])
       < SumFunction([lag \in Lags |-> lag]) * SumFunction([lag \in Lags |-> ic_by_lag[lag]])

----------------------------------------------------------------------------
EvalInit == observed = <<>> /\ entries = <<>> /\ ic_by_lag = <<>>

(* One more prediction meets its outcome.                                  *)
Observe(observation) ==
  /\ entries = <<>> /\ Len(observed) < MaxRows
  /\ observed' = Append(observed, observation)
  /\ UNCHANGED <<entries, ic_by_lag>>

(* The alpha is evaluated and added to the ranker, the rows are dropped.   *)
AddFromAlpha ==
  /\ entries = <<>> /\ observed # <<>>
  /\ entries' = <<[profit |-> FromPredictions.profit_factor, risk |-> FromPredictions.drawdown]>>
  /\ observed' = <<>> /\ UNCHANGED ic_by_lag

Add(metrics) ==
  /\ entries # <<>> /\ Len(entries) <= MaxOthers /\ ic_by_lag = <<>>
  /\ entries' = Append(entries, metrics) /\ UNCHANGED <<observed, ic_by_lag>>

ClearRanker ==
  /\ Len(entries) > MaxOthers /\ entries' = <<>> /\ UNCHANGED <<observed, ic_by_lag>>

(* compute_ic_decay, the next lag.                                         *)
ComputeIc(exponent) ==
  /\ observed = <<>> /\ entries = <<>> /\ Len(ic_by_lag) <= MaxLag
  /\ ic_by_lag' = Append(ic_by_lag, exponent) /\ UNCHANGED <<observed, entries>>

EvalNext ==
  \/ \E observation \in Observations \cup {MissingRow} : ic_by_lag = <<>> /\ Observe(observation)
  \/ AddFromAlpha
  \/ \E metrics \in Others : Add(metrics)
  \/ ClearRanker
  \/ \E exponent \in Exponents \cup {NoIc, NotANumber} : ComputeIc(exponent)

EvalSpec == EvalInit /\ [][EvalNext]_evalVars

----------------------------------------------------------------------------
(* The rows that predict the opposite of the row before.                   *)
Reversals ==
  {i \in 2..Len(Aligned) : Sign(Aligned[i][1]) * Sign(Aligned[i - 1][1]) = -1}

(* The metrics of one alpha do not contradict each other: it earned more   *)
(* than it lost exactly if its profit factor is above 1, and then its      *)
(* Sharpe ratio is not negative; no drawdown is deeper than all it lost,   *)
(* nor smaller than what it lost after its first row without earning; and  *)
(* one that is always right has no drawdown.  (One that earned the same in *)
(* every row has a Sharpe ratio of 0, and one that never predicted         *)
(* anything the profit factor 999 of one that never lost.)                 *)
(*   n_signals is not the "total number of signals generated" of the       *)
(* docstring but the changes of direction: an alpha that predicts one      *)
(* direction throughout has none.  And turnover is not the "fraction of    *)
(* bars where signal direction changes" of the comment: a reversal counts  *)
(* twice in it.                                                            *)
MetricsAgree ==
  Len(Aligned) >= 5 =>
    LET m == FromPredictions
    IN  /\ SignalLoss > 0 =>
             /\ m.profit_factor > 100 => SignalProfit > SignalLoss /\ m.sharpe >= 0
             /\ m.profit_factor < 100 => SignalProfit < SignalLoss /\ m.sharpe <= 0
        /\ m.drawdown <= SignalLoss
        /\ m.drawdown >= SignalLoss - SignalProfit + Min({0, SignalReturns[1]})
        /\ m.hits = Len(Aligned) => m.drawdown = 0 /\ SignalLoss = 0
        /\ m.calmar * m.sharpe >= 0
        /\ m.turnover = m.n_signals + Cardinality(Reversals)
        /\ m.n_signals = 0 <=>
             \A i, j \in DOMAIN Aligned : Sign(Aligned[i][1]) = Sign(Aligned[j][1])

(* Whoever is off the frontier is dominated by somebody on it, and no two  *)
(* of its members differ in nothing but the better one: choosing from the  *)
(* frontier loses nothing, and it is never empty.  (It is smaller than the *)
(* docstring has it, which keeps whoever is not beaten strictly on both    *)
(* objectives: being equal in one and worse in the other is enough to be   *)
(* left out.)                                                              *)
FrontierIsComplete ==
  /\ entries # <<>> => ParetoFrontier # {}
  /\ \A i \in DOMAIN entries \ ParetoFrontier :
       \E j \in ParetoFrontier : /\ entries[j].profit >= entries[i].profit
                                 /\ entries[j].risk <= entries[i].risk
                                 /\ entries[j] # entries[i]
  /\ \A i, j \in DOMAIN entries :
       \/ entries[j].profit = entries[i].profit /\ entries[j].risk < entries[i].risk
       \/ entries[j].risk = entries[i].risk /\ entries[j].profit > entries[i].profit
       => i \notin ParetoFrontier

OnlyFalls ==
  /\ \A i \in DOMAIN ic_by_lag : ic_by_lag[i] # NotANumber
  /\ \A i \in 2..Len(ic_by_lag) : ic_by_lag[i] <= ic_by_lag[i - 1]

(* The two measures of decay agree on an alpha whose IC only falls: where  *)
(* it has fallen under half while it stays positive, the rate is positive, *)
(* and before its half-life no IC is under half of the first; where the    *)
(* rate is positive, the IC is lower at the end.  (Where the first IC is   *)
(* no number, the alpha never fades, whatever the others are.)             *)
DecayMeasuresAgree ==
  /\ OnlyFalls /\ Len(ic_by_lag) >= 3 =>
       /\ Lags = DOMAIN ic_by_lag =>
            /\ EstimateHalflife # PositiveInfinity => DecayRatePositive
            /\ DecayRatePositive => ic_by_lag[Len(ic_by_lag)] < ic_by_lag[1]
       /\ \A i \in DOMAIN ic_by_lag :
            i - 1 < EstimateHalflife <=> ic_by_lag[1] # NoIc /\ ic_by_lag[i] >= ic_by_lag[1] - 1
  /\ ic_by_lag # <<>> /\ ic_by_lag[1] = NotANumber => EstimateHalflife = PositiveInfinity

EvaluationIsSound == MetricsAgree /\ FrontierIsComplete /\ DecayMeasuresAgree
=============================================================================
