----------------------------- MODULE Causality -----------------------------
(***************************************************************************)
(* What indicators (aqc/indicators/), volatility and regime series         *)
(* (aqc/volatility/, aqc/regimes/) and the features of strategies and      *)
(* alphas (aqc/strategies/) look at.  They are computed on all rows at     *)
(* once for research, and on a buffer of the last rows when trading; rows  *)
(* come one at a time, and some lack their values.  The columns of a row   *)
(* are one input.                                                          *)
(***************************************************************************)
EXTENDS Series

CONSTANTS
  Period,   \* the period, window and min_periods of all of them, the slow one
            \* where there are two; the fast one is a row less
  MaxRows   \* bound on the rows

VARIABLE missing   \* for each row whether its values are missing

Rows(from) == [i \in 1..(Len(missing) - from + 1) |->
                 IF missing[from + i - 1] THEN NaN ELSE {from + i - 1}]

----------------------------------------------------------------------------
(* indicators/moving_averages.py *)
Sma(x, n) == Rolling(x, n, n)
Ema(x, n) == Ewm(x, n)
Wma(x, n) == Rolling(x, n, n)
Dema(x, n) == Both(Ema(x, n), Ema(Ema(x, n), n))
HullMa(x, n) == Wma(Both(Wma(x, Max({1, n \div 2})), Wma(x, n)),
                    Max({k \in 1..n : k * k <= n}))

(* indicators/momentum.py *)
Rsi(x, n) == Ewm(Diff(x, 1), n)
MacdLine(x, n) == Both(Ema(x, n - 1), Ema(x, n))
MacdHistogram(x, n) == Both(MacdLine(x, n), Ema(MacdLine(x, n), n - 1))
StochasticK(x, n) == Both(x, Rolling(x, n, n))
StochasticD(x, n) == Rolling(StochasticK(x, n), n - 1, n - 1)
RateOfChange(x, n) == Diff(x, n)

(* indicators/volatility.py *)
BollingerBand(x, n) == Both(Sma(x, n), Rolling(x, n, n))
BollingerPercentB(x, n) == Both(x, BollingerBand(x, n))
TrueRange(x) == [t \in DOMAIN x |-> IF x[t] = NaN THEN NaN ELSE RowMax(x, Shift(x, 1))[t]]
Atr(x, n) == Ewm(TrueRange(x), n)
LogReturns(x) == Diff(x, 1)
HistoricalVolatility(x, n) == Rolling(LogReturns(x), n, n)

----------------------------------------------------------------------------
(* ewma_variance: seeded with the variance of the first minp rows from the *)
(* first return on, and from there on updated with the return of the row   *)
(* before.                                                                 *)
EwmaVariance(x, minp) ==
  LET valid == Defined(x, DOMAIN x)
      seed == Min(valid) + minp - 1
      seeded == /\ Cardinality(valid) >= minp /\ seed <= Len(x)
                /\ Cardinality(Defined(x, Min(valid)..seed)) >= 2
  IN  [t \in DOMAIN x |-> IF seeded /\ t >= seed
                          THEN Of(x, Min(valid)..Max({seed, t - 1})) ELSE NaN]

(* The returns of the models and detectors are taken without their NaN.    *)
Returns(x) == DropNa(LogReturns(x))
(* (EwmaVolatilityWithNaN and ZscoreExpanding are slips that the checks    *)
(* must notice; neither is part of the specification.)                     *)
EwmaVolatilityWithNaN(x, n) == EwmaVariance(LogReturns(x), n)
EwmaVolatility(x, n) == EwmaVariance(Returns(x), n)
RollingVolatility(x, n) == Rolling(Returns(x), n, n)
VolOfVol(x, n) == Rolling(DropNa(Diff(RollingVolatility(x, n), 1)), n, n)
GarchVolatility(x, n) == WholeSample(Returns(x))
HmmStates(x, n) == WholeSample(Returns(x))

(* TrendRegimeDetector.detect_series: the slope of a moving average, and   *)
(* the ADX.                                                                *)
TrendSlope(x, n) ==
  [t \in DOMAIN x |-> LET ma == Sma(x, n)  segment == Defined(ma, t - n + 1..t)
                      IN  IF t >= 2 * n /\ Cardinality(segment) >= 2
                          THEN ma[Min(segment)] \cup ma[Max(segment)] ELSE NaN]
DirectionalMove(x) == Fill(Diff(x, 1))
Adx(x, n) == Ewm(Both(Ewm(DirectionalMove(x), n), Atr(x, n)), n)
TrendRegime(x, n) == Both(Fill(TrendSlope(x, n)), Fill(Adx(x, n)))

(* CorrelationRegimeDetector.detect_series: the rows before a row.         *)
AvgCorrelation(x, n) == [t \in DOMAIN x |-> IF t <= n THEN NaN
                                            ELSE Shift(Rolling(x, n, 2), 1)[t]]
----------------------------------------------------------------------------
(* strategies/intraday/ *)
VwapZscore(x, n) == LET deviation == Both(x, CumSum(x))
                    IN  Both(deviation, Rolling(deviation, n, n))
ZscoreExpanding(x, n) == Both(x, Ewm(x, n))
Zscore(x, n) == Both(x, Rolling(x, n, n))
VolRatio(x, n) == Both(HistoricalVolatility(x, n - 1), HistoricalVolatility(x, n))
VolumeSpike(x, n) == Fill(Both(x, Rolling(x, n, n)))
FailedBreakout(x, n) == Fill(Both(x, Shift(Rolling(x, n, n), 1)))

(* strategies/orderbook_imbalance/, liquidity_alpha/, microprice_alpha/:   *)
(* of a snapshot itself, of its change, against the last n, and the        *)
(* targets, which are the returns to come.                                 *)
QueueImbalance(x, n) == Fill(Diff(x, 1))
DepthDrop(x, n) == Diff(x, 1)
SpreadZscore(x, n) == Zscore(x, n)
LiquidityShock(x, n) == Fill(Zscore(x, n))
DeviationZscore(x, n) == Zscore(x, n)
FutureReturns(x, h) == Both(Shift(x, -h), x)

----------------------------------------------------------------------------
(* Each of them on the rows x, but for garch_vol, hmm_state and the        *)
(* targets: the first two are fitted to the whole sample and look ahead,   *)
(* which the targets are meant to.                                         *)
Causal(x, n) ==
  [sma |-> Sma(x, n), ema |-> Ema(x, n), wma |-> Wma(x, n), dema |-> Dema(x, n),
   hull_ma |-> HullMa(x, n), rsi |-> Rsi(x, n), macd |-> MacdHistogram(x, n),
   stochastic |-> StochasticD(x, n), rate_of_change |-> RateOfChange(x, n),
   percent_b |-> BollingerPercentB(x, n), atr |-> Atr(x, n),
   historical_volatility |-> HistoricalVolatility(x, n),
   ewma_volatility |-> EwmaVolatility(x, n), vol |-> RollingVolatility(x, n),
   vol_of_vol |-> VolOfVol(x, n), trend_regime |-> TrendRegime(x, n),
   avg_corr |-> AvgCorrelation(x, n), vwap_zscore |-> VwapZscore(x, n),
   zscore |-> Zscore(x, n), vol_ratio |-> VolRatio(x, n),
   volume_spike |-> VolumeSpike(x, n), failed_breakout |-> FailedBreakout(x, n),
   queue_imbalance |-> QueueImbalance(x, n), depth_drop |-> DepthDrop(x, n),
   spread_zscore |-> SpreadZscore(x, n), liquidity_shock |-> LiquidityShock(x, n),
   deviation_zscore |-> DeviationZscore(x, n)]

(* What is computed on a buffer when trading, and how many rows it holds   *)
(* at least: tail(lookback) of the two alphas; two more than the window in *)
(* the strategies, whose lookback is ten more than the period, or three    *)
(* times the period, or more.                                              *)
Buffer(name) ==
  IF name \in {"spread_zscore", "liquidity_shock", "depth_drop", "deviation_zscore"}
  THEN Period ELSE Period + 2

(* The features that weigh or add up all the rows they are given: the RSI, *)
(* the EMAs, and the VWAP, which is a running sum.                         *)
Forgetful == {"rsi", "ema", "vwap_zscore"}

Buffered == Forgetful \cup
  {"spread_zscore", "liquidity_shock", "depth_drop", "deviation_zscore",
   "sma", "zscore", "vol_ratio", "volume_spike", "failed_breakout"}

RowsInit == missing = <<>>

NewRow == Len(missing) < MaxRows /\ \E m \in BOOLEAN : missing' = Append(missing, m)

RowsSpec == RowsInit /\ [][NewRow]_missing

----------------------------------------------------------------------------
(* A row that comes later never changes what was computed for the earlier  *)
(* ones: a backtest over the whole series sees at each bar what it would   *)
(* have seen when the bar was the last ("Zero look-ahead bias").           *)
Appended ==
  LET before == Causal(Rows(1), Period)  after == before'
  IN  \A name \in DOMAIN before : IsPrefix(before[name], after[name])

NoRepaint == [][NewRow => Appended]_missing

(* What a strategy or an alpha computes on its buffer, at the last row,    *)
(* beside what the same function gives on all rows.  For the features with *)
(* a window the two are one value.  For the forgetful ones they are not,   *)
(* and the strategies that mean-revert on the RSI, follow three EMAs or    *)
(* revert to the VWAP (the composite one too) decide on another value than *)
(* a chart of the whole series shows: no row of the buffer misses its      *)
(* say, but all rows before it do, so that the value moves with the        *)
(* lookback, and with the day a run starts.  What the buffer cannot do is  *)
(* make a value of rows that the whole series would not use, or give one   *)
(* where the whole series has none.                                        *)
ServedFromBuffer ==
  LET all == Causal(Rows(1), Period)
  IN  \A n \in Period..Len(missing) :
        LET first == Len(missing) - n + 1
            held == Causal(Rows(first), Period)
        IN  \A name \in Buffered : n >= Buffer(name) =>
              IF name \notin Forgetful THEN Last(held[name]) = Last(all[name])
              ELSE /\ Last(held[name]) \subseteq Last(all[name])
                   /\ (\A i \in DOMAIN missing : ~missing[i]) =>
                        /\ Last(held[name]) = first..Len(missing)
                        /\ Last(all[name]) = 1..Len(missing)
=============================================================================
