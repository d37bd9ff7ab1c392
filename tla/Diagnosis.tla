----------------------------- MODULE Diagnosis -----------------------------
(***************************************************************************)
(* What aqc/diagnostics/, aqc/research/regime_transitions/ and             *)
(* aqc/portfolio/portfolio_metrics.py make of a finished run: exposures,   *)
(* leverage, concentration and risk budget (exposure_analysis.py,          *)
(* leverage_analysis.py, position_analysis.py, risk_budget_analysis.py),   *)
(* drawdown events and the validation score (diagnostics_engine.py),       *)
(* performance by regime (regime_analysis.py), regime transitions and the  *)
(* tail risk of the returns.                                               *)
(*                                                                         *)
(* Ratios are in percent, drawdowns in hundredths of a percent, squared    *)
(* weights in hundredths of a percent; divisions round down.  Standard     *)
(* deviations and t-tests are left out.                                    *)
(***************************************************************************)
EXTENDS Integers, Sequences, FiniteSetsExt, SequencesExt, Selections

CONSTANTS
  Symbols,
  RunBars,     \* the rows a run can have: equity, position values, price, return
               \* and realised volatility in percent, regimes
  MaxRunRows,
  MaxLeverage, \* in percent
  TargetVol,   \* in percent
  MinReturns,  \* returns before a tail risk is given, 10
  TopN         \* drawdown events reported, 5

(* No equity is below 0, every price is above it, and a limit of 0 would   *)
(* divide by 0.                                                            *)
ASSUME DiagnosisAssumption ==
  /\ IsFiniteSet(Symbols) /\ Symbols # {}
  /\ \A bar \in RunBars :
       /\ bar.equity \in Nat /\ bar.values \in [Symbols -> Int] /\ bar.price \in Nat \ {0}
       /\ bar.ret \in Int /\ bar.realised_vol \in Nat
  /\ MaxLeverage \in Nat \ {0} /\ TargetVol \in Nat \ {0}
  /\ MinReturns \in Nat \ {0} /\ TopN \in Nat

VARIABLE rows

DiagnosisInit == rows = <<>>

NewRow == \E bar \in RunBars : Len(rows) < MaxRunRows /\ rows' = Append(rows, bar)

DiagnosisSpec == DiagnosisInit /\ [][NewRow]_rows

NoValue == -1000000
SizeOf(n) == Max({n, -n})
Positive(n) == Max({n, 0})
MeanOf(f) == IF DOMAIN f = {} THEN NoValue ELSE SumFunction(f) \div Cardinality(DOMAIN f)
Share(S, T) == IF T = {} THEN NoValue ELSE (100 * Cardinality(S)) \div Cardinality(T)

----------------------------------------------------------------------------
(* The equity of a row, of the last row before where it is 0.              *)
EquityAt(i) ==
  LET known == {j \in 1..i : rows[j].equity # 0}
  IN  IF known = {} THEN NoValue ELSE rows[Max(known)].equity

Defined == {i \in DOMAIN rows : EquityAt(i) # NoValue}
PerEquity(value, i) == (100 * value) \div EquityAt(i)

(* ExposureAnalyzer and LeverageAnalyzer, of the defined rows.             *)
Long(i) == SumFunction([s \in Symbols |-> PerEquity(Positive(rows[i].values[s]), i)])
Short(i) == SumFunction([s \in Symbols |-> PerEquity(Positive(-rows[i].values[s]), i)])
GrossExposure(i) == Long(i) + Short(i)
NetExposure(i) == Long(i) - Short(i)

GrossHeld(i) == SumFunction([s \in Symbols |-> SizeOf(rows[i].values[s])])
GrossLeverage(i) == PerEquity(GrossHeld(i), i)
NetLeverage(i) == PerEquity(SumFunction(rows[i].values), i)

ExposureStats ==
  [max_gross |-> Max({GrossExposure(i) : i \in Defined}),
   pct_fully_invested |-> Share({i \in Defined : GrossExposure(i) > 95}, DOMAIN rows)]

LeverageStats ==
  [max_gross |-> Max({GrossLeverage(i) : i \in Defined}),
   pct_leveraged |-> Share({i \in Defined : GrossLeverage(i) > 100}, Defined)]

(* PositionAnalyzer: the weights, their concentration and the turnover.    *)
Weight(i, s) == PerEquity(SizeOf(rows[i].values[s]), i)
Hhi(i) == SumFunction([s \in Symbols |-> Weight(i, s) * Weight(i, s)])
MaxWeight(i) == Max({Weight(i, s) : s \in Symbols})
NumPositions(i) == Cardinality({s \in Symbols : rows[i].values[s] # 0})
DailyTurnover(i) ==
  IF i - 1 \notin Defined THEN 0
  ELSE SumFunction([s \in Symbols |-> SizeOf(Weight(i, s) - Weight(i - 1, s))])

(* RiskBudgetAnalyzer.                                                     *)
Utilisation(i) == (GrossLeverage(i) * rows[i].realised_vol) \div TargetVol
RiskBudgetStats ==
  [max_utilisation |-> Max({Utilisation(i) : i \in Defined}),
   pct_over_budget |-> Share({i \in Defined : Utilisation(i) > 100}, Defined),
   pct_under_50 |-> Share({i \in Defined : Utilisation(i) < 50}, Defined)]

----------------------------------------------------------------------------
(* find_drawdowns: an event begins with the first row more than 0.1        *)
(* percent under the peak and ends with the first that is not; its trough  *)
(* is the first of its deepest rows.                                       *)
PeakTo(equity, i) == Max({equity[j] : j \in 1..i})
Drawdown(equity, i) ==
  IF PeakTo(equity, i) = 0 THEN 0
  ELSE (10000 * (equity[i] - PeakTo(equity, i))) \div PeakTo(equity, i)

RawEquity == [i \in DOMAIN rows |-> rows[i].equity]
InDrawdown(i) == Drawdown(RawEquity, i) < -10

EventOf(start, end) ==
  LET segment == start..IF end = 0 THEN Len(rows) ELSE end
      depth == Min({Drawdown(RawEquity, i) : i \in segment})
      trough == Min({i \in segment : Drawdown(RawEquity, i) = depth})
  IN  [start |-> start, trough |-> trough, end |-> end, depth |-> depth]

(* (Slip: the event that ended goes on.)                                   *)
ScanForEver(scan, i) ==
  IF InDrawdown(i) /\ scan.start = 0 THEN [scan EXCEPT !.start = i]
  ELSE IF ~InDrawdown(i) /\ scan.start # 0
  THEN [scan EXCEPT !.events = Append(@, EventOf(scan.start, i))]
  ELSE scan

Scan(scan, i) ==
  IF InDrawdown(i) /\ scan.start = 0 THEN [scan EXCEPT !.start = i]
  ELSE IF ~InDrawdown(i) /\ scan.start # 0
  THEN [start |-> 0, events |-> Append(scan.events, EventOf(scan.start, i))]
  ELSE scan

AllDrawdowns ==
  LET scan == FoldLeft(Scan, [start |-> 0, events |-> <<>>], [i \in DOMAIN rows |-> i])
  IN  IF scan.start = 0 THEN scan.events ELSE Append(scan.events, EventOf(scan.start, 0))

FindDrawdowns ==
  LET depths == [k \in DOMAIN AllDrawdowns |-> AllDrawdowns[k].depth]
  IN  [k \in 1..Min({TopN, Len(AllDrawdowns)}) |-> AllDrawdowns[Ordered(depths, k)]]

(* leverage_during_drawdowns: the rows more than 2 percent under the peak. *)
KnownEquity == [i \in DOMAIN rows |-> IF i \in Defined THEN EquityAt(i) ELSE 0]
DrawdownRows == {i \in Defined : Drawdown(KnownEquity, i) < -200}

----------------------------------------------------------------------------
(* RegimePerformanceAnalyzer._compute_by: regimes of one row are left out, *)
(* and where none is left the table has no column to be indexed by: the    *)
(* KeyError leaves run_all, and no part after this one is reported.        *)
RowsOf(column, regime) == {i \in DOMAIN rows : rows[i][column] = regime}
RegimesOf(column) ==
  {r \in {rows[i][column] : i \in DOMAIN rows} : Cardinality(RowsOf(column, r)) >= 2}

ByRegime(column) ==
  [raised |-> RegimesOf(column) = {},
   table |->
     [r \in RegimesOf(column) |->
        [n_bars |-> Cardinality(RowsOf(column, r)),
         pct_time |-> Share(RowsOf(column, r), DOMAIN rows),
         win_rate |-> Share({i \in RowsOf(column, r) : rows[i].ret > 0}, RowsOf(column, r)),
         contribution |-> SumFunction([i \in RowsOf(column, r) |-> rows[i].ret])]]]

(* TransitionEngine.identify_transitions: each row after the first is      *)
(* looked at twice, for the volatility regime first.                       *)
Looks == 2..2 * Len(rows) - 1
RowAt(p) == p \div 2 + 1
ColumnAt(p) == IF p % 2 = 0 THEN "vol" ELSE "trend"
Changes(column, i) == rows[i][column] # rows[i - 1][column]

Observed(column, i) ==
  [regime_type |-> column, row |-> i, from |-> rows[i - 1][column], to |-> rows[i][column]]

Transitions ==
  Select([p \in Looks |-> Observed(ColumnAt(p), RowAt(p))],
         {p \in Looks : Changes(ColumnAt(p), RowAt(p))})

(* transition_frequency_matrix.                                            *)
TransitionsOf(column) ==
  Select(Transitions, {k \in DOMAIN Transitions : Transitions[k].regime_type = column})

Frequency(column, from, to) ==
  LET path == TransitionsOf(column)
  IN  Cardinality({k \in DOMAIN path : path[k].from = from /\ path[k].to = to})

(* TransitionAlphaAnalyzer: the return of the bars after each transition,  *)
(* where there are as many, averaged over the events of a pair of regimes; *)
(* neither a pair nor a horizon is looked at for a single event.           *)
Horizons == 1..3
ForwardReturn(horizon, i) ==
  IF i + horizon > Len(rows) THEN NoValue
  ELSE (100 * (rows[i + horizon].price - rows[i].price)) \div rows[i].price

EventRows(column, pair) ==
  {i \in DOMAIN rows \ {1} : /\ <<rows[i - 1][column], rows[i][column]>> = pair
                            /\ pair[1] # pair[2]}

Known(horizon, S) == {i \in S : ForwardReturn(horizon, i) # NoValue}

Average(horizon, S) ==
  IF Cardinality(S) < 2 THEN NoValue ELSE MeanOf([i \in S |-> ForwardReturn(horizon, i)])

PairsOf(column) ==
  LET path == TransitionsOf(column) IN {<<path[k].from, path[k].to>> : k \in DOMAIN path}

AnalyzeAlpha(column) ==
  [pair \in {p \in PairsOf(column) : Cardinality(EventRows(column, p)) >= 2} |->
     [count |-> Cardinality(EventRows(column, pair)),
      avg_ret |-> [h \in Horizons |-> Average(h, Known(h, EventRows(column, pair)))]]]

----------------------------------------------------------------------------
(* PortfolioRiskMetrics: value at risk and expected shortfall at 80        *)
(* percent over a horizon, times 100, as np.percentile interpolates.  The  *)
(* value at risk is 0 for too few sums over the horizon as well as for too *)
(* few returns; the shortfall looks at the returns only, and takes that 0  *)
(* for a quantile.                                                         *)
Rolling(horizon) ==
  [i \in 1..Len(rows) - horizon + 1 |->
     100 * SumFunction([j \in i..i + horizon - 1 |-> rows[j].ret])]

RunLosses(horizon) ==
  [k \in DOMAIN Rolling(horizon) |-> Rolling(horizon)[Ordered(Rolling(horizon), k)]]

Percentile(p, sorted) ==
  LET at == p * (Len(sorted) - 1)  low == at \div 100 + 1
  IN  sorted[low] + IF at % 100 = 0 THEN 0
                    ELSE ((at % 100) * (sorted[low + 1] - sorted[low])) \div 100

Enough(horizon) == Len(rows) >= MinReturns /\ Len(rows) - horizon + 1 >= MinReturns
HistoricalVar(horizon) == IF Enough(horizon) THEN Percentile(20, RunLosses(horizon)) ELSE 0

ExpectedShortfall(horizon) ==
  LET losses == RunLosses(horizon)
      tail == {k \in DOMAIN losses : losses[k] <= HistoricalVar(horizon)}
  IN  IF Len(rows) < MinReturns THEN 0
      ELSE IF tail = {} THEN HistoricalVar(horizon) ELSE MeanOf(Select(losses, tail))

ConcentrationHhi(i) ==
  IF GrossHeld(i) = 0 THEN NoValue
  ELSE (10000 * SumFunction([s \in Symbols |-> rows[i].values[s] * rows[i].values[s]]))
         \div (GrossHeld(i) * GrossHeld(i))

----------------------------------------------------------------------------
(* PortfolioValidator.validate: the penalties of each part with what is    *)
(* reported for it; the forecasts are not looked at.                       *)
Penalised(condition, penalty) == IF condition THEN <<penalty>> ELSE <<>>

LeveragePenalties ==
  Penalised(LeverageStats.max_gross > MaxLeverage,
            Min({40, (100 * (LeverageStats.max_gross - MaxLeverage)) \div MaxLeverage}))
  \o Penalised(LeverageStats.pct_leveraged > 50, 15)

BudgetPenalties ==
  Penalised(RiskBudgetStats.pct_over_budget > 10, Min({30, RiskBudgetStats.pct_over_budget}))
  \o Penalised(RiskBudgetStats.max_utilisation > 200, 20)

ExposurePenalties ==
  Penalised(ExposureStats.max_gross > 200, 20)
  \o Penalised(ExposureStats.pct_fully_invested < 30, 10)

(* (A row without an equity has weights of no value, which sum to 0: it    *)
(* counts in the mean.)                                                    *)
ConcentrationPenalties ==
  LET hhi == MeanOf([i \in DOMAIN rows |-> IF i \in Defined THEN Hhi(i) ELSE 0])
      heaviest == Max({MaxWeight(i) : i \in Defined})
  IN  Penalised(hhi > 5000, Min({30, (hhi - 5000) \div 100})) \o Penalised(heaviest > 50, 15)

Score(penalties) == Positive(100 - SumFunction(penalties))
RegimeScore == IF RiskBudgetStats.pct_over_budget > 20 THEN 80 ELSE 90

Validation ==
  [overall |-> (Score(LeveragePenalties) + Score(BudgetPenalties) + Score(ExposurePenalties)
                + Score(ConcentrationPenalties) + 100 + RegimeScore) \div 6,
   violations |-> Len(LeveragePenalties \o BudgetPenalties \o ExposurePenalties
                      \o ConcentrationPenalties)]

----------------------------------------------------------------------------
(* The four analysers of the positions describe one portfolio: exposures   *)
(* and leverage, computed apart, are the same up to rounding; no weight is *)
(* more than the gross exposure nor their concentration more than the      *)
(* heaviest allows; and what changes in a row is turned over, up to the    *)
(* rounding of the weights, if the equity did not move them.               *)
PositionsAgree ==
  \A i \in Defined :
    /\ SizeOf(GrossExposure(i) - GrossLeverage(i)) <= Cardinality(Symbols)
    /\ SizeOf(NetExposure(i) - NetLeverage(i)) <= Cardinality(Symbols)
    /\ MaxWeight(i) <= GrossLeverage(i)
    /\ MaxWeight(i) * MaxWeight(i) <= Hhi(i) /\ Hhi(i) <= MaxWeight(i) * GrossLeverage(i)
    /\ NumPositions(i) > 0 =>
         10000 \div NumPositions(i) <= ConcentrationHhi(i) /\ ConcentrationHhi(i) <= 10000
    /\ i - 1 \in Defined /\ EquityAt(i) = EquityAt(i - 1) =>
         SizeOf(GrossLeverage(i) - GrossLeverage(i - 1)) < DailyTurnover(i) + Cardinality(Symbols)

(* The drawdown events take the curve apart: every row under water is in   *)
(* exactly one of them, no other row but the one it ends with is, only the *)
(* last may be open, and the first reported is as deep as the curve ever   *)
(* fell.  The leverage is reported of such rows only, where no equity was  *)
(* lost altogether.                                                        *)
Covers(event, i) == event.start <= i /\ (event.end = 0 \/ i < event.end)

DrawdownsPartition ==
  LET events == AllDrawdowns  reported == FindDrawdowns
  IN  /\ \A i \in DOMAIN rows :
           Cardinality({k \in DOMAIN events : Covers(events[k], i)}) = IF InDrawdown(i) THEN 1 ELSE 0
      /\ \A k \in DOMAIN events :
           /\ Covers(events[k], events[k].trough)
           /\ events[k].end = 0 => k = Len(events)
      /\ reported # <<>> =>
           reported[1].depth = Min({Drawdown(RawEquity, i) : i \in DOMAIN rows})
      /\ (\A i \in DOMAIN rows : rows[i].equity # 0) => \A i \in DrawdownRows : InDrawdown(i)

(* The transitions of each kind are one path through the regimes: each     *)
(* begins where the one before ended, and every regime is left as often as *)
(* it is entered, but for the first and the last.  The performance by      *)
(* regime raises if no regime came twice and never else, and adds up to    *)
(* the performance of the run where every regime came twice.               *)
(* An average return is one the prices had, and one that is given for a    *)
(* horizon is given for the shorter ones.                                  *)
RegimesAddUp ==
  rows # <<>> =>
    \A column \in {"vol", "trend"} :
      LET path == TransitionsOf(column)
          first == rows[1][column]  last == Last(rows)[column]
          all == {rows[i][column] : i \in DOMAIN rows}
          Left(r) == SumFunction([to \in all |-> Frequency(column, r, to)])
          Entered(r) == SumFunction([from \in all |-> Frequency(column, from, r)])
      IN  /\ \A k \in 2..Len(path) : path[k].from = path[k - 1].to
          /\ \A r \in all : Left(r) - Entered(r) = (IF r = first THEN 1 ELSE 0)
                                                   - (IF r = last THEN 1 ELSE 0)
          /\ ByRegime(column).raised
               <=> \A i, j \in DOMAIN rows : rows[i][column] = rows[j][column] => i = j
          /\ RegimesOf(column) = all =>
               /\ SumFunction([r \in all |-> ByRegime(column).table[r].contribution])
                    = SumFunction([i \in DOMAIN rows |-> rows[i].ret])
               /\ SumFunction([r \in all |-> ByRegime(column).table[r].n_bars]) = Len(rows)
          /\ \A pair \in DOMAIN AnalyzeAlpha(column) :
               LET alpha == AnalyzeAlpha(column)[pair]
               IN  /\ alpha.count = Frequency(column, pair[1], pair[2])
                   /\ \A h \in Horizons : alpha.avg_ret[h] # NoValue =>
                        /\ \A k \in 1..h : alpha.avg_ret[k] # NoValue
                        /\ \E i, j \in Known(h, DOMAIN rows) :
                             ForwardReturn(h, i) <= alpha.avg_ret[h]
                             /\ alpha.avg_ret[h] <= ForwardReturn(h, j)

(* The expected shortfall is no milder than the value at risk, and no      *)
(* worse than the worst loss, at every horizon; where there are too few    *)
(* sums over the horizon for a value at risk, given as 0, the shortfall is *)
(* 0 or a loss, and no worse than the worst still.                         *)
TailIsOrdered ==
  \A horizon \in 1..2 :
    /\ ExpectedShortfall(horizon) <= HistoricalVar(horizon)
    /\ Enough(horizon) \/ ExpectedShortfall(horizon) # 0 =>
         RunLosses(horizon)[1] <= ExpectedShortfall(horizon)

(* A portfolio is not marked down without a violation that says why, and   *)
(* one that was never leveraged nor over its budget keeps its marks for    *)
(* both.                                                                   *)
ScoreHasReasons ==
  Defined # {} =>
    /\ Validation.overall < 98 => Validation.violations > 0
    /\ (\A i \in Defined : /\ GrossLeverage(i) <= Min({100, MaxLeverage})
                           /\ rows[i].realised_vol <= TargetVol) =>
         /\ LeveragePenalties = <<>> /\ BudgetPenalties = <<>> /\ RegimeScore = 90
         /\ Validation.overall >= 85

(* All of the above: the parts of a diagnosis do not contradict.           *)
DiagnosisSound ==
  PositionsAgree /\ DrawdownsPartition /\ RegimesAddUp /\ TailIsOrdered /\ ScoreHasReasons
=============================================================================
