---------------------------- MODULE Performance ----------------------------
(***************************************************************************)
(* What a backtest reports of the account: Portfolio's equity curve and    *)
(* summary (aqc/backtester/portfolio.py), the frame BacktestEngine makes   *)
(* of them (engine.py) and PerformanceMetrics (aqc/analytics/metrics.py),  *)
(* over the fills of Trades.                                               *)
(*                                                                         *)
(* Returns are in hundredths of a percent, rounded down; an average stands *)
(* as its sum beside its count.  Ratios to a standard deviation are left   *)
(* out.                                                                    *)
(***************************************************************************)
EXTENDS Trades

CONSTANTS InitialCapital,  \* Portfolio.initial_capital
          MaxBars          \* bound on the number of bars

VARIABLES
  equity_curve,  \* Portfolio.equity_curve
  \* history:
  settled        \* no fill was booked since the last snapshot

perfVars == <<tradeVars, equity_curve, settled>>

PerfInit == TradesInit /\ equity_curve = <<>> /\ settled = TRUE

Equity == InitialCapital + cash + MarketValue(pos)
NumOpenPositions == IF IsFlat(pos) THEN 0 ELSE 1

(* _record_equity_snapshot, at the end of on_market_event: the position is *)
(* marked, the bar's own fills are still to come.                          *)
Snapshot == [equity |-> Equity, cash |-> InitialCapital + cash, total_pnl |-> TotalPnl(pos),
             num_positions |-> NumOpenPositions]

(* (A slip: the snapshot is taken before the position is marked.)          *)
RecordSnapshotUnmarked == equity_curve' = Append(equity_curve, Snapshot)
RecordSnapshot == equity_curve' = Append(equity_curve, Snapshot')

Bar ==
  /\ Len(equity_curve) < MaxBars
  /\ OnMarket /\ UNCHANGED <<trade_log, whole>>
  /\ RecordSnapshot
  /\ settled' = TRUE

(* A fill follows a bar: the broker fills at the bar it has.               *)
Trade ==
  /\ equity_curve # <<>>
  /\ LoggedFill
  /\ settled' = FALSE /\ UNCHANGED equity_curve

PerfNext == Bar \/ Trade

PerfSpec == PerfInit /\ [][PerfNext]_perfVars

----------------------------------------------------------------------------
(* The reports.  The engine's frame leaves num_positions out.              *)
Frame == [i \in DOMAIN equity_curve |->
            [equity |-> equity_curve[i].equity, cash |-> equity_curve[i].cash,
             total_pnl |-> equity_curve[i].total_pnl]]

NaN == "NaN"
Equities == [i \in DOMAIN Frame |-> Frame[i].equity]
First == Equities[1]
Final == Last(Equities)
Peak(i) == Max({Equities[j] : j \in 1..i})                                \* cummax

TotalReturnPct == IF Len(Frame) < 2 THEN 0 ELSE (10000 * Final) \div First - 10000

MaxDrawdownAbs ==
  IF Len(Frame) < 2 THEN 0 ELSE Min({Equities[i] - Peak(i) : i \in DOMAIN Frame})

MaxDrawdownPct ==
  IF Len(Frame) < 2 THEN 0
  ELSE Min({(10000 * (Equities[i] - Peak(i))) \div Peak(i) : i \in DOMAIN Frame})

Wins == {i \in TradeFrame : trade_log[i].realised_pnl > 0}
Losses == {i \in TradeFrame : trade_log[i].realised_pnl < 0}
GrossProfit == TotalOf(trade_log, Wins, "realised_pnl")
GrossLoss == -TotalOf(trade_log, Losses, "realised_pnl")

WinRate == IF TradeFrame = {} THEN NaN ELSE (100 * Cardinality(Wins)) \div Cardinality(TradeFrame)

ProfitFactor ==                                       \* in percent
  IF TradeFrame = {} THEN NaN
  ELSE IF GrossLoss = 0 THEN IF GrossProfit > 0 THEN "inf" ELSE NaN
  ELSE (100 * GrossProfit) \div GrossLoss

(* The share of bars with a position, of a frame that has the column.      *)
Exposure(frame) ==
  IF frame = <<>> \/ "num_positions" \notin DOMAIN frame[1] THEN NaN
  ELSE (100 * Cardinality({i \in DOMAIN frame : frame[i].num_positions > 0})) \div Len(frame)

(* compute_all: nothing for fewer than two returns.                        *)
Metrics ==
  IF Len(Frame) < 3 THEN <<>>
  ELSE [total_return_pct |-> TotalReturnPct, max_drawdown_abs |-> MaxDrawdownAbs,
        max_drawdown_pct |-> MaxDrawdownPct, win_rate |-> WinRate,
        profit_factor |-> ProfitFactor, num_trades |-> Cardinality(TradeFrame),
        num_wins |-> Cardinality(Wins), num_losses |-> Cardinality(Losses),
        wins |-> GrossProfit, losses |-> GrossLoss, exposure |-> Exposure(Frame)]

(* Portfolio.summary.                                                      *)
Summary ==
  [final_equity |-> Equity, total_pnl |-> TotalPnl(pos), total_commission |-> commission,
   num_trades |-> Len(trade_log), num_open_positions |-> NumOpenPositions,
   return_pct |-> (10000 * (Equity - InitialCapital)) \div InitialCapital]

----------------------------------------------------------------------------
(* The two reports of one run tell the same story, although one is made    *)
(* from the account and the other from its curve and its log: once no fill *)
(* is missing from the curve, they name the same return; it is negative    *)
(* exactly if the winning trades earned less than the losing ones and the  *)
(* commissions took, when all is closed; and never below what the deepest  *)
(* drawdown took.  (Reductions away from the average cost lose PnL, so     *)
(* they are left out here as in BooksAgree.)                               *)
ReportsAgree ==
  Metrics # <<>> =>
    /\ Metrics.num_trades = Metrics.num_wins + Metrics.num_losses
    /\ Metrics.total_return_pct * InitialCapital >= 10000 * Metrics.max_drawdown_abs - InitialCapital
    /\ settled =>
         /\ Metrics.total_return_pct = Summary.return_pct
         /\ kept /\ IsFlat(pos) =>
              Final - First = Metrics.wins - Metrics.losses - Summary.total_commission
=============================================================================
