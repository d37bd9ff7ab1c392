------------------------------- MODULE Trades -------------------------------
(***************************************************************************)
(* What is made of the ledger's fills afterwards: Portfolio's trade log    *)
(* (aqc/backtester/portfolio.py), TradeAnalyzer's reconstruction of round  *)
(* trips and TradeAttributionEngine's split of their PnL (aqc/diagnostics),*)
(* and the trades PerformanceMetrics counts (aqc/analytics/metrics.py).    *)
(*                                                                         *)
(* Every reader of the log groups it by symbol first, so one instrument is *)
(* enough.  An entry is kept with its cost in place of its average price.  *)
(***************************************************************************)
EXTENDS PositionLedger, SequencesExt

VARIABLES
  trade_log,  \* Portfolio.trade_log
  \* history:
  whole       \* every fill against a position closed all of it and no more

tradeVars == <<pos, cash, commission, fills, kept, trade_log, whole>>

----------------------------------------------------------------------------
TradesInit == Init /\ trade_log = <<>> /\ whole = TRUE

(* The end of on_fill_event: the fill and the PnL it realised are logged.  *)
LogFill(side, qty, price, fee) ==
  trade_log' = Append(trade_log, [side |-> side, quantity |-> qty, fill_price |-> price,
                                  commission |-> fee,
                                  realised_pnl |-> pos'.realised - pos.realised])

LoggedFill ==
  \E side \in Sides, qty \in Quantities, price \in Prices, fee \in Commissions :
    /\ Fill(side, qty, price, fee)
    /\ LogFill(side, qty, price, fee)
    /\ whole' = (whole /\ (\/ IsFlat(pos) \/ SameDirection(pos.quantity, Signed(side, qty))
                           \/ qty = MagnitudeOf(pos.quantity)))

TradesNext ==
  \/ OnMarket /\ UNCHANGED <<trade_log, whole>>
  \/ LoggedFill

TradesSpec == TradesInit /\ [][TradesNext]_tradeVars

----------------------------------------------------------------------------
(* reconstruct_trades: the first fill is the pending entry, one more on    *)
(* its side is averaged into it, and any fill on the other side closes     *)
(* all of it, whatever its own quantity.                                   *)
NoEntry == [side |-> "-", quantity |-> 0, cost |-> 0, commission |-> 0]

EntryOf(row) == [side |-> row.side, quantity |-> row.quantity,
                 cost |-> row.quantity * row.fill_price, commission |-> row.commission]

Averaged(entry, row) ==
  [entry EXCEPT !.quantity = @ + row.quantity,
                !.cost = @ + row.quantity * row.fill_price,
                !.commission = @ + row.commission]

TradeOf(entry, row) ==
  LET fee == entry.commission + row.commission
      gain == Signed(entry.side, entry.quantity * row.fill_price - entry.cost)
  IN  [direction |-> IF entry.side = "BUY" THEN "LONG" ELSE "SHORT",
       quantity |-> entry.quantity, notional |-> entry.cost,
       commission |-> fee, realised_pnl |-> gain - fee]

(* (Slips that the checks must notice; none is part of the specification.) *)
PairAtLatestPrice(read, row) ==
  IF read.entry = NoEntry THEN [read EXCEPT !.entry = EntryOf(row)]
  ELSE IF row.side = read.entry.side
  THEN LET entry == Averaged(read.entry, row)
       IN  [read EXCEPT !.entry = [entry EXCEPT !.cost = entry.quantity * row.fill_price]]
  ELSE [entry |-> NoEntry, trades |-> Append(read.trades, TradeOf(read.entry, row))]

Pair(read, row) ==
  IF read.entry = NoEntry THEN [read EXCEPT !.entry = EntryOf(row)]
  ELSE IF row.side = read.entry.side THEN [read EXCEPT !.entry = Averaged(@, row)]
  ELSE [entry |-> NoEntry, trades |-> Append(read.trades, TradeOf(read.entry, row))]

Unread == [entry |-> NoEntry, trades |-> <<>>]
Reconstructed == FoldLeft(Pair, Unread, trade_log)

(* The sum of a field over some of the rows or trades.                     *)
TotalOf(rows, some, field) == SumFunction([i \in some |-> rows[i][field]])

Infinite == 1000000

(* trade_stats; the averages are what the totals are divided by.           *)
Winning(trades) == {i \in DOMAIN trades : trades[i].realised_pnl > 0}
Losing(trades) == {i \in DOMAIN trades : trades[i].realised_pnl <= 0}

TradeStats(trades) ==
  LET profit == TotalOf(trades, Winning(trades), "realised_pnl")
      loss == TotalOf(trades, Losing(trades), "realised_pnl")
  IN  [winning_trades |-> Cardinality(Winning(trades)),
       losing_trades |-> Cardinality(Losing(trades)),
       best_trade |-> Max({trades[i].realised_pnl : i \in DOMAIN trades}),
       worst_trade |-> Min({trades[i].realised_pnl : i \in DOMAIN trades}),
       profit_factor |-> IF loss = 0 THEN Infinite ELSE (100 * profit) \div (-loss),
       total_pnl |-> TotalOf(trades, DOMAIN trades, "realised_pnl")]

(* _decompose by direction.                                                *)
Bucket(trades, direction) == {i \in DOMAIN trades : trades[i].direction = direction}
Decompose(trades) ==
  [d \in {trades[i].direction : i \in DOMAIN trades} |->
     [n_trades |-> Cardinality(Bucket(trades, d)),
      total_pnl |-> TotalOf(trades, Bucket(trades, d), "realised_pnl")]]

(* _build_trade_df: the fills that realised something, before commissions. *)
TradeFrame == {i \in DOMAIN trade_log : trade_log[i].realised_pnl # 0}

----------------------------------------------------------------------------
(* As long as every exit closes the whole position, the three accounts of  *)
(* the run agree: what the trades of the analyser earned is what the       *)
(* ledger realised less the commissions of the trades it closed, and what  *)
(* the metrics' trades earned; the entry still pending is the position,    *)
(* at its cost; and no trade is left out of the attribution by direction.  *)
(* (A partial exit is paired as if it closed all: from then on the two     *)
(* disagree.)  The statistics of the trades have the sign of their sum.    *)
TradesAddUp ==
  whole =>
    LET read == Reconstructed
        split == Decompose(read.trades)
        earned == TotalOf(read.trades, DOMAIN read.trades, "realised_pnl")
        fees == TotalOf(read.trades, DOMAIN read.trades, "commission")
    IN  /\ earned + fees = pos.realised
        /\ earned + fees = TotalOf(trade_log, TradeFrame, "realised_pnl")
        /\ fees + read.entry.commission = commission
        /\ Signed(read.entry.side, read.entry.quantity) = pos.quantity
        /\ Signed(read.entry.side, read.entry.cost) = pos.cost
        /\ SumFunction([d \in DOMAIN split |-> split[d].total_pnl]) = earned
        /\ read.trades # <<>> =>
             LET stats == TradeStats(read.trades)
             IN  /\ stats.total_pnl > 0 => stats.profit_factor >= 100
                 /\ stats.total_pnl < 0 => stats.profit_factor < 100
                 /\ stats.winning_trades = 0 <=> stats.best_trade <= 0
                 /\ stats.total_pnl >= stats.worst_trade * (stats.winning_trades + stats.losing_trades)
=============================================================================
