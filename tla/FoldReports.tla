----------------------------- MODULE FoldReports -----------------------------
(***************************************************************************)
(* What a walk-forward study reports of its folds: WalkForwardResult       *)
(* (aqc/research/walk_forward.py) and WalkForwardValidator (validation.py).*)
(*                                                                         *)
(* Equity stands as its logarithm to base 2, so that rescaling a curve is  *)
(* an addition.  Scores are in percent, rounded down; of a correlation     *)
(* only its sign and its thresholds are kept.  Standard deviations are     *)
(* left out.                                                               *)
(***************************************************************************)
EXTENDS Integers, Sequences, FiniteSetsExt, SequencesExt

CONSTANTS
  Results,     \* what a fold can yield: its best_params, its train and test
               \* metrics and its test equity curve
  BarsPerFold, \* longest curve
  MaxFolds

ASSUME FoldsAssumption ==
  /\ BarsPerFold \in Nat
  /\ \A result \in Results :
       /\ result.curve \in Seq(Int) /\ Len(result.curve) <= BarsPerFold
       /\ result.best_params.period \in Int
       /\ result.train.sharpe \in Int /\ result.train.total_return \in Int
       /\ result.test.sharpe \in Int /\ result.test.total_return \in Int

VARIABLE folds

NoMetric == -1000000      \* a metric that is not finite
Finite(value) == value # NoMetric
Mean(values) == SumFunction(values) \div Cardinality(DOMAIN values)
Lowest(values) == Min({values[k] : k \in DOMAIN values})
Highest(values) == Max({values[k] : k \in DOMAIN values})

FoldsInit == folds = <<>>

(* run() appends one fold after the other.  Row j of the curve is of the   *)
(* fold's j-th test bar.                                                   *)
RunFold ==
  \E result \in Results :
    /\ Len(folds) < MaxFolds
    /\ folds' = Append(folds, result)

FoldsSpec == FoldsInit /\ [][RunFold]_folds

----------------------------------------------------------------------------
(* combined_test_equity_curve: each curve is rescaled to begin where the   *)
(* last one ended; an empty one is skipped.  (Slip: it is rescaled to      *)
(* where the last one ended before it was rescaled itself.)                *)
Rescaled(k, shift) ==
  [j \in DOMAIN folds[k].curve |->
     [bar |-> (k - 1) * BarsPerFold + j, fold |-> k, equity |-> folds[k].curve[j] + shift]]

JoinedUnscaled(sofar, k) ==
  IF folds[k].curve = <<>> THEN sofar
  ELSE LET shift == IF sofar.rows = <<>> THEN 0 ELSE sofar.running - Head(folds[k].curve)
       IN  [rows |-> sofar.rows \o Rescaled(k, shift), running |-> Last(folds[k].curve)]

Joined(sofar, k) ==
  IF folds[k].curve = <<>> THEN sofar
  ELSE LET shift == IF sofar.rows = <<>> THEN 0 ELSE sofar.running - Head(folds[k].curve)
       IN  [rows |-> sofar.rows \o Rescaled(k, shift), running |-> Last(folds[k].curve) + shift]

Concatenated ==
  FoldLeft(Joined, [rows |-> <<>>, running |-> 0], [k \in DOMAIN folds |-> k]).rows

(* The last row of a bar is kept, and the rows are sorted.                 *)
CombinedTestEquityCurve ==
  LET Again(i) == \E j \in i + 1..Len(Concatenated) : Concatenated[j].bar = Concatenated[i].bar
      kept == {i \in DOMAIN Concatenated : ~Again(i)}
      At(n) == CHOOSE i \in kept :
                 Cardinality({j \in kept : Concatenated[j].bar <= Concatenated[i].bar}) = n
  IN  [n \in 1..Cardinality(kept) |-> Concatenated[At(n)]]

----------------------------------------------------------------------------
(* aggregate_metrics, for one metric: over its finite values.              *)
Aggregate(metric) ==
  LET given == {k \in DOMAIN folds : Finite(folds[k].test[metric])}
      values == [k \in given |-> folds[k].test[metric]]
  IN  IF given = {} THEN [mean |-> NoMetric, min |-> NoMetric, max |-> NoMetric]
      ELSE [mean |-> Mean(values), min |-> Lowest(values), max |-> Highest(values)]

(* parameter_stability of a numeric parameter, and of any other: the first *)
(* of the values that none is more frequent than.                          *)
NumericStability(name) ==
  LET values == [k \in DOMAIN folds |-> folds[k].best_params[name]]
  IN  [mean |-> Mean(values), min |-> Lowest(values), max |-> Highest(values),
       cv_defined |-> SumFunction(values) # 0]

CategoricalStability(name) ==
  LET value == [k \in DOMAIN folds |-> folds[k].best_params[name]]
      count == [k \in DOMAIN folds |-> Cardinality({j \in DOMAIN folds : value[j] = value[k]})]
      mode == CHOOSE k \in DOMAIN folds : /\ \A j \in DOMAIN folds : count[j] <= count[k]
                                         /\ \A j \in 1..k - 1 : count[j] < count[k]
  IN  [mode |-> value[mode], count |-> count[mode]]

(* is_oos_correlation, over the folds with both Sharpe ratios: undefined   *)
(* for fewer than two or if either does not vary.                          *)
Paired == {k \in DOMAIN folds : Finite(folds[k].train.sharpe) /\ Finite(folds[k].test.sharpe)}
TrainSharpe == [k \in Paired |-> folds[k].train.sharpe]
TestSharpe == [k \in Paired |-> folds[k].test.sharpe]

Covariance(x, y) ==
  Cardinality(DOMAIN x) * SumFunction([k \in DOMAIN x |-> x[k] * y[k]])
  - SumFunction(x) * SumFunction(y)

IsOosCovariance == Covariance(TrainSharpe, TestSharpe)
Variances == Covariance(TrainSharpe, TrainSharpe) * Covariance(TestSharpe, TestSharpe)

(* How build_report_text reads it: above 0.6, above 0.2, or below.         *)
CorrelationAbove(tenths) ==
  IsOosCovariance > 0 /\ 100 * IsOosCovariance * IsOosCovariance > tenths * tenths * Variances

Interpretation ==
  IF Cardinality(Paired) < 2 \/ Variances = 0 THEN "N/A"
  ELSE IF CorrelationAbove(6) THEN "generalise well"
  ELSE IF CorrelationAbove(2) THEN "some overfitting" ELSE "potential overfitting"

(* overfitting_score: over the folds with a positive training return.      *)
OverfittingScore ==
  LET earning == {k \in DOMAIN folds : /\ Finite(folds[k].train.total_return)
                                       /\ Finite(folds[k].test.total_return)
                                       /\ folds[k].train.total_return > 0}
      degradation ==
        [k \in earning |->
           Max({0, 100 - (100 * folds[k].test.total_return) \div folds[k].train.total_return})]
  IN  IF earning = {} THEN NoMetric ELSE Mean(degradation)

----------------------------------------------------------------------------
(* The combined curve is one account that traded all folds in turn: every  *)
(* bar of every fold is there once and in order, between two bars of a     *)
(* fold it moves as that fold's account did, and from one fold to the      *)
(* next, skipped ones or not, nothing is gained or lost.                   *)
OneAccount ==
  LET combined == CombinedTestEquityCurve
  IN  /\ Len(combined) = SumFunction([k \in DOMAIN folds |-> Len(folds[k].curve)])
      /\ \A i \in 2..Len(combined) :
           LET before == combined[i-1]  now == combined[i]
               curve == folds[now.fold].curve
               j == now.bar - (now.fold - 1) * BarsPerFold
           IN  /\ before.bar < now.bar
               /\ now.equity - before.equity =
                    IF before.fold = now.fold THEN curve[j] - curve[j-1] ELSE 0

(* The two measures of overfitting never contradict what every fold shows: *)
(* if a better training Sharpe never comes with a worse test Sharpe, the   *)
(* report speaks of overfitting only where a correlation of at most 0.2    *)
(* leaves it no choice, and never of a negative one; if no fold earns less *)
(* in the test than in a training that earned something, the score is 0;   *)
(* if none earns anything in the test it is at least 100, and above it if  *)
(* all of them lose: the score has no upper end, though its docstring and  *)
(* the walk-forward guide place it in [0, 1].  And an average over the     *)
(* folds is between its extremes, a mode no rarer than any value.          *)
MeasuresAgree ==
  /\ (\A i, j \in Paired : TrainSharpe[i] < TrainSharpe[j] => TestSharpe[i] <= TestSharpe[j]) =>
       IsOosCovariance >= 0
  /\ Interpretation = "generalise well" =>
       \E i, j \in Paired : TrainSharpe[i] < TrainSharpe[j] /\ TestSharpe[i] < TestSharpe[j]
  /\ Finite(OverfittingScore) =>
       /\ (\A k \in DOMAIN folds : folds[k].test.total_return >= folds[k].train.total_return) =>
            OverfittingScore = 0
       /\ (\A k \in DOMAIN folds : folds[k].test.total_return <= 0) => OverfittingScore >= 100
       /\ (\A k \in DOMAIN folds : folds[k].test.total_return < 0) => OverfittingScore > 100
  /\ \A metric \in {"sharpe", "total_return"} :
       LET all == Aggregate(metric) IN all.min <= all.mean /\ all.mean <= all.max
  /\ folds # <<>> =>
       LET period == NumericStability("period")  source == CategoricalStability("source")
       IN  /\ period.min <= period.mean /\ period.mean <= period.max
           /\ source.count * Cardinality({folds[k].best_params.source : k \in DOMAIN folds})
                >= Len(folds)

StudySound == OneAccount /\ MeasuresAgree
=============================================================================
