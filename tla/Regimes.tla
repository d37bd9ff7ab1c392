------------------------------ MODULE Regimes ------------------------------
(***************************************************************************)
(* RegimeEngine (aqc/regimes/) and VolatilityForecastEngine                *)
(* (aqc/volatility/forecasting_engine.py): the objects that label every    *)
(* bar with a regime and size positions by a volatility forecast.  They    *)
(* keep a history of their own readings, to rank the next one in, and the  *)
(* result of their last fit, to save fitting again.  Callers ask them bar  *)
(* by bar while they simulate, for the whole series when they report, or,  *)
(* as VolatilityTargetedPortfolio does, only when a signal comes, one      *)
(* object for all instruments.                                             *)
(*                                                                         *)
(* A bar brings a reading, the volatility or the average correlation of    *)
(* the last window of returns; the two detectors and the ensemble do not   *)
(* look at each other, and are shown the same numbers.                     *)
(***************************************************************************)
EXTENDS Integers, Sequences, FiniteSetsExt, SequencesExt, TLC

CONSTANTS
  Readings,       \* volatilities, correlations
  Slopes, Adxs,   \* of the trend, see TrendLabel
  VolWindow,      \* window of the detectors
  HistoryLength,  \* maxlen of their histories, 252
  MinHistory,     \* readings to rank against before a label is given, 10
  MinHmm,         \* returns before the HMM is fitted, 60
  MinForecast,    \* returns before a forecast is made, 30
  RefitEvery,     \* hmm_refit_every and garch_refit_every, 60
  MaxBars         \* bound on the bars

VARIABLES
  readings,     \* the reading of each bar
  vol_history,  \* VolatilityRegimeDetector._vol_history
  corr_history, \* CorrelationRegimeDetector._avg_corr_history
  ensemble,     \* VolatilityForecastEngine._vol_history
  labels,       \* the labels given to each bar
  call_count,   \* RegimeEngine._call_count
  hmm, garch,   \* _hmm_result and _garch_result: the bar of the last fit, 0 for
                \* none
  snapshot,     \* the last RegimeSnapshot's trend and confidence, and the types
                \* of strategies RegimeFilter lets trade in it
  \* history:
  reported,     \* whether detect_full_series was called
  raised        \* the last bar since the fit at which a refit raised, 0 for none

regimeVars == <<readings, vol_history, corr_history, ensemble, labels, call_count,
                hmm, garch, snapshot, reported, raised>>

Unasked == [vol |-> "-", corr |-> "-", forecast |-> "-"]

LastFew(s, n) == IF Len(s) <= n THEN s ELSE SubSeq(s, Len(s) - n + 1, Len(s))

----------------------------------------------------------------------------
(* np.percentile of a sequence at p percent, times 100: between the two    *)
(* sorted values next to the position p (n - 1) / 100.                     *)
Percentile(p, s) ==
  LET sorted == SortSeq(s, <)
      at == p * (Len(s) - 1)
      low == at \div 100 + 1
  IN  100 * sorted[low] + IF at % 100 = 0 THEN 0
                          ELSE (at % 100) * (sorted[low + 1] - sorted[low])

(* _classify of both detectors and _classify_regime of the forecasts: the  *)
(* reading in the history that it is already part of.                      *)
Classify(x, hist) ==
  IF Len(hist) < MinHistory THEN "NORMAL"
  ELSE IF 100 * x >= Percentile(95, hist) THEN "EXTREME"
  ELSE IF 100 * x >= Percentile(75, hist) THEN "HIGH"
  ELSE IF 100 * x <= Percentile(25, hist) THEN "LOW" ELSE "NORMAL"

(* TrendRegimeDetector._classify, the slope in units of 0.0001.            *)
TrendLabel(slope, adx) ==
  IF adx < 20 /\ slope \in -4..4 THEN "RANGE_BOUND"
  ELSE IF slope > 20 /\ adx > 30 THEN "STRONG_UPTREND"
  ELSE IF slope > 5 THEN "UPTREND"
  ELSE IF slope < -20 /\ adx > 30 THEN "STRONG_DOWNTREND"
  ELSE IF slope < -5 THEN "DOWNTREND" ELSE "RANGE_BOUND"

(* _compute_confidence, in percent.                                        *)
Confidence(vol, trend) ==
  CASE <<vol, trend>> \in {<<"LOW", "RANGE_BOUND">>}
         \cup {"NORMAL"} \X {"UPTREND", "DOWNTREND"}
         \cup {"HIGH", "EXTREME"} \X {"STRONG_DOWNTREND"} -> 80
    [] vol = "NORMAL" /\ trend \notin {"UPTREND", "DOWNTREND"} -> 60
    [] OTHER -> 40

(* RegimeFilter.should_trade, by its default rules.                        *)
ShouldTrade(type, vol, trend) ==
  CASE type = "mean_reversion" ->
         vol \in {"LOW", "NORMAL"} /\ trend \in {"RANGE_BOUND", "UPTREND", "DOWNTREND"}
    [] type = "momentum" -> \/ vol = "NORMAL" /\ trend # "RANGE_BOUND"
                            \/ vol = "HIGH" /\ trend \in {"STRONG_UPTREND", "STRONG_DOWNTREND"}
    [] OTHER -> TRUE

----------------------------------------------------------------------------
(* The readings of the first n bars that exist at all: the first VolWindow *)
(* bars do not fill a window of returns.                                   *)
ReadingsTo(n) == SubSeq(readings, VolWindow + 1, n)

(* detect_series of the two detectors, at the nth bar.  A row of the       *)
(* correlation series is computed from the rows before it.                 *)
VolLabel(n) ==
  IF n <= VolWindow THEN "NORMAL"
  ELSE Classify(readings[n], LastFew(ReadingsTo(n), HistoryLength))
CorrLabel(n) == IF n = 1 THEN "NORMAL" ELSE VolLabel(n - 1)

----------------------------------------------------------------------------
RegimeInit ==
  /\ readings = <<>> /\ labels = <<>>
  /\ vol_history = <<>> /\ corr_history = <<>> /\ ensemble = <<>>
  /\ call_count = 0 /\ hmm = 0 /\ garch = 0
  /\ snapshot = <<"RANGE_BOUND", 50, {}>>
  /\ reported = FALSE /\ raised = [hmm |-> 0, garch |-> 0]

Now == Len(readings)
NumReturns == Now - 1
Asked(model) == Now > 0 /\ Last(labels)[model] # "-"

(* A bar, once all has been asked about the one before.                    *)
Bar ==
  /\ Now < MaxBars
  /\ Now > 0 => Asked("vol") /\ Asked("forecast")
  /\ \E r \in Readings : readings' = Append(readings, r)
  /\ labels' = Append(labels, Unasked)
  /\ UNCHANGED <<vol_history, corr_history, ensemble, call_count, hmm, garch,
                 snapshot, reported, raised>>

(* RegimeEngine.detect: each detector files its reading, if there is one,  *)
(* and labels it; the HMM is fitted when there is no result or the count   *)
(* of the calls is due, and its last label stands in between.  A fit that  *)
(* raises is not caught: the call is counted and the readings are filed,   *)
(* but no answer comes, and the last result stays.                         *)
(* (FiledUnbounded is a slip that the checks must notice; it is no part of *)
(* the specification.)                                                     *)
FiledUnbounded(hist, max) == IF Now <= VolWindow THEN hist ELSE Append(hist, Last(readings))
Filed(hist, max) ==
  IF Now <= VolWindow THEN hist ELSE LastFew(Append(hist, Last(readings)), max)

HmmDue == hmm = 0 \/ call_count' % RefitEvery = 0

Detection ==
  /\ Now > 0 /\ ~Asked("vol")
  /\ call_count' = call_count + 1
  /\ vol_history' = Filed(vol_history, HistoryLength)
  /\ corr_history' = Filed(corr_history, HistoryLength)
  /\ UNCHANGED <<readings, ensemble, garch, reported>>

Detect ==
  /\ Detection
  /\ LET label(hist) == IF Now <= VolWindow THEN "NORMAL"
                        ELSE Classify(Last(readings), hist)
         vol == label(vol_history')
     IN  /\ labels' = [labels EXCEPT ![Now].vol = vol, ![Now].corr = label(corr_history')]
         /\ \E slope \in Slopes, adx \in Adxs :
              LET trend == TrendLabel(slope, adx)
              IN  snapshot' = <<trend, Confidence(vol, trend),
                    {type \in {"mean_reversion", "momentum"} : ShouldTrade(type, vol, trend)}>>
  /\ IF HmmDue /\ NumReturns >= MinHmm
     THEN hmm' = Now /\ raised' = [raised EXCEPT !.hmm = 0]
     ELSE UNCHANGED <<hmm, raised>>

DetectRaises ==
  /\ Detection
  /\ HmmDue /\ NumReturns >= MinHmm
  /\ labels' = [labels EXCEPT ![Now].vol = "raised", ![Now].corr = "raised"]
  /\ raised' = [raised EXCEPT !.hmm = IF hmm = 0 THEN 0 ELSE Now]
  /\ UNCHANGED <<hmm, snapshot>>

(* VolatilityForecastEngine.fit_and_forecast: GARCH is fitted if there is  *)
(* no converged result or the number of returns is due.  A fit that does   *)
(* not converge leaves the historical volatility in its place, until the   *)
(* next one.  A refit that raises is caught: this bar is answered by the   *)
(* historical volatility, but the last result stays and answers again      *)
(* until a fit is due.  (A first fit that raises leaves none, like one     *)
(* that does not converge.)                                                *)
GarchDue == garch = 0 \/ NumReturns % RefitEvery = 0

Forecast ==
  /\ Now > 0 /\ ~Asked("forecast")
  /\ IF NumReturns < MinForecast
     THEN /\ labels' = [labels EXCEPT ![Now].forecast = "NORMAL"]
          /\ UNCHANGED <<ensemble, garch, raised>>
     ELSE /\ ensemble' = Append(ensemble, Last(readings))
          /\ labels' = [labels EXCEPT ![Now].forecast = Classify(Last(readings), ensemble')]
          /\ \/ /\ GarchDue /\ garch' \in {0, Now}
                /\ raised' = [raised EXCEPT !.garch = 0]
             \/ /\ GarchDue /\ garch # 0
                /\ raised' = [raised EXCEPT !.garch = Now]
                /\ UNCHANGED garch
             \/ ~GarchDue /\ UNCHANGED <<garch, raised>>
  /\ UNCHANGED <<readings, vol_history, corr_history, call_count, hmm, snapshot,
                 reported>>

(* detect_full_series: both detectors clear their history and fill it with *)
(* the whole series; the HMM fitted for it is not kept.                    *)
DetectFullSeries ==
  /\ Asked("vol")
  /\ vol_history' = LastFew(ReadingsTo(Now), HistoryLength)
  /\ corr_history' = LastFew(ReadingsTo(Now - 1), HistoryLength)
  /\ reported' = TRUE
  /\ UNCHANGED <<readings, ensemble, labels, call_count, hmm, garch, snapshot, raised>>

(* compute_full_series ranks every bar in the history of the forecasts,    *)
(* which it leaves alone; its fit is kept if it converges and does not     *)
(* raise.                                                                  *)
ComputeFullSeries ==
  /\ Now > 2
  /\ \/ garch' = Now /\ raised' = [raised EXCEPT !.garch = 0]
     \/ UNCHANGED <<garch, raised>>
  /\ UNCHANGED <<readings, vol_history, corr_history, ensemble, labels, call_count,
                 hmm, snapshot, reported>>

RegimeNext ==
  \/ Bar \/ Detect \/ DetectRaises \/ Forecast
  \/ DetectFullSeries \/ ComputeFullSeries

RegimeSpec == RegimeInit /\ [][RegimeNext]_regimeVars

----------------------------------------------------------------------------
(* An engine asked about every bar, as in a simulation, gives each bar the *)
(* volatility label that the report of the whole series gives it, also if  *)
(* such reports were made or fits raised in between, and never revises it; *)
(* its forecasts rank a bar among those before it only, and its            *)
(* correlation label is that of the next row of the report.  (Not so the   *)
(* trend label, which is not among these: detect says RANGE_BOUND below 60 *)
(* rows, trend_regime.py:105, the series only below 30.)                   *)
LabelsAgree ==
  \A n \in 1..Now :
    LET given == labels[n]
    IN  /\ given.vol \in {"-", "raised", VolLabel(n)}
        /\ ~reported => given.corr \in {"-", "raised", CorrLabel(n + 1)}
        /\ given.forecast \in {"-", IF n - 1 < MinForecast THEN "NORMAL"
                                   ELSE Classify(readings[n], SubSeq(readings, MinForecast + 1, n))}

RaisedLately(model) == raised[model] # 0 /\ Now - raised[model] < RefitEvery

(* The models behind a bar's answer were fitted fewer than RefitEvery bars *)
(* before, however calls for the whole series fall in between, unless the  *)
(* last refit that was due raised: then, and only then, an older model     *)
(* still answers, and not for longer than until the next one is due.       *)
ModelsFresh ==
  /\ Asked("vol") /\ hmm # 0 =>
       Now - hmm < RefitEvery \/ RaisedLately("hmm")
  /\ Asked("forecast") /\ garch # 0 /\ NumReturns >= MinForecast =>
       Now - garch < RefitEvery \/ RaisedLately("garch")

(* One bar at a time is labelled by volatility and correlation as in the   *)
(* whole series, with models no older than they may be unless a refit      *)
(* raised.                                                                 *)
OnlineIsBatch == LabelsAgree /\ ModelsFresh
=============================================================================
