----------------------------- MODULE MCAccounts -----------------------------
(***************************************************************************)
(* What is reckoned from fills, folds and live metrics, checked in one run *)
(* as in MCComponents: the trades and reports of a backtest (Trades,       *)
(* Performance), what trading costs (Execution), the health of live models *)
(* (LiveValidation), the report of a walk-forward study (FoldReports), the *)
(* alphas a process builds and how it compares them (AlphaRegistry,        *)
(* AlphaEvaluation), what the diagnostics make of a run (Diagnosis), and   *)
(* what is read off an order book (Orderbook).                             *)
(***************************************************************************)
EXTENDS Performance, Execution, LiveValidation, AlphaRegistry, AlphaEvaluation,
        FoldReports, Orderbook, Diagnosis

VARIABLE part

----------------------------------------------------------------------------
(* The brokers: the backtest's default, its other commission models, paper *)
(* trading as examples/run_paper_trading.py sets it up, with a volatility  *)
(* multiplier, and as the tests do, with models that charge nothing.       *)
(* Quantities and volumes have ratios around 1, 2, 5 and 10 percent.       *)
MCBrokers ==
  {Broker("backtest", 5, 0, 0, Percentage(1, 0)), Broker("backtest", 5, 0, 0, Percentage(1, 900)),
   Broker("backtest", 0, 0, 0, FlatFee(500)), Broker("backtest", 0, 0, 0, Zero),
   Broker("paper", 5, 0, 10, Percentage(1, 0)), Broker("paper", 5, 1, 10, Percentage(1, 0)),
   Broker("paper", 0, 0, 10, Percentage(0, 0)), Broker("paper", 0, 0, 0, Percentage(0, 0))}

(* An expectation with regimes and one without, of a model that earns and  *)
(* of one that does not; live metrics that are better, worse or missing.   *)
Profile ==
  [sharpe |-> 20, cagr |-> 20, profit_factor |-> 15, win_rate |-> 55, freq |-> 100, rmse |-> 20,
   signal_dist |-> "single", regime_dist |-> "usual", slippage |-> 5, fill_rate |-> 98,
   cost |-> 10]

Nothing == [x \in {} |-> 0]

LiveMetrics ==
  [alpha : {Nothing, [sharpe |-> 21, cagr |-> 22, profit_factor |-> 16, win_rate |-> 56],
            [sharpe |-> -5, cagr |-> -10, profit_factor |-> 5, win_rate |-> 30]},
   signal : {[freq |-> 95, dist |-> "usual"], [freq |-> 20, dist |-> "usual"]},
   forecast : {Nothing, [rmse |-> 30, correlation |-> 50]},
   regime : {"absent", "usual", "shifted"},
   execution : {[slippage |-> 4, fill_rate |-> 100, cost |-> 9],
                [slippage |-> 4, fill_rate |-> 90, cost |-> 9],
                [slippage |-> 10, fill_rate |-> 80, cost |-> 15]}]

MCProfiles ==
  {Profile, [Profile EXCEPT !.sharpe = 0, !.cagr = -5, !.signal_dist = "usual",
                            !.regime_dist = "absent"]}

(* Folds that earn or lose in training and in the test, and ones without   *)
(* a metric.                                                               *)
FoldResults ==
  {[best_params |-> p, train |-> t, test |-> u,
    curve |-> IF u.sharpe = NoMetric THEN <<>>
              ELSE IF p.source = "open" THEN <<3, 4, 2>> ELSE <<3, 5>>] :
     p \in {[period |-> 5, source |-> "close"], [period |-> -5, source |-> "open"]},
     t \in {[sharpe |-> 10, total_return |-> 4], [sharpe |-> 20, total_return |-> 10],
            [sharpe |-> NoMetric, total_return |-> -3]},
     u \in {[sharpe |-> 15, total_return |-> 6], [sharpe |-> -5, total_return |-> -2],
            [sharpe |-> NoMetric, total_return |-> NoMetric]}}

(* A sound class, one whose constructor and one whose fit raises.          *)
MCNames == <<"a", "b">>
MCClasses == [Good |-> "nothing", Wrong |-> "TypeError", Unfit |-> "ValueError"]

(* Predictions that were right, wrong and neutral; alphas that are better  *)
(* in one objective, in both or in none.                                   *)
MCObservations == {<<1, 2>>, <<-1, 2>>, <<1, -1>>, <<0, 2>>}
MCOthers == [profit : {100, 250}, risk : {0, 2}]

(* Rows long, short, flat and leveraged; new peaks, falls just over a     *)
(* tenth and over two percent under the peak, and an account lost          *)
(* altogether.                                                             *)
Row(equity, a, b, ret, realised, vol, trend) ==
  [equity |-> equity, values |-> [a |-> a, b |-> b], price |-> 100 + 10 * ret, ret |-> ret,
   realised_vol |-> realised, vol |-> vol, trend |-> trend]

RunRows ==
  {Row(100, 30, 60, 1, 12, "LOW", "UP"), Row(200, 100, -150, 2, 30, "HIGH", "UP"),
   Row(199, 0, 0, -1, 8, "LOW", "UP"), Row(50, 100, 80, -3, 20, "HIGH", "DOWN"),
   Row(0, 0, -50, -2, 20, "NORMAL", "DOWN")}

(* Books with levels of no volume, wide and narrow, of one level and more, *)
(* with different numbers of levels on their sides.                        *)
Level(px, vol) == [px |-> px, vol |-> vol]
Happening(kind, side, volume, price) ==
  [kind |-> kind, side |-> side, volume |-> volume, price |-> price]

MCSnapshots ==
  [bid : {<<Level(198, 300), Level(196, 900)>>, <<Level(198, 0), Level(196, 500)>>,
          <<Level(198, 700)>>, <<Level(190, 600), Level(188, 0), Level(186, 500)>>},
   ask : {<<Level(202, 300), Level(204, 900)>>, <<Level(202, 0), Level(204, 0)>>,
          <<Level(202, 1100)>>, <<Level(216, 600), Level(218, 200), Level(220, 50)>>},
   trades : {<<>>, <<Happening("TRADE", "BUY", 5, 202)>>,
             <<Happening("TRADE", "BUY", 5, 202), Happening("TRADE", "SELL", 4, 198)>>},
   events : {<<>>, <<Happening("ARRIVAL", "BID", 5, 198), Happening("MODIFICATION", "ASK", 1, 202),
                     Happening("CANCELLATION", "ASK", 3, 202), Happening("ARRIVAL", "ASK", 2, 204)>>}]

----------------------------------------------------------------------------
MCInit ==
  /\ part \in {"trades", "performance", "execution", "validation", "study", "alphas",
               "evaluation", "diagnosis", "book"}
  /\ PerfInit /\ HealthInit /\ RegistryInit /\ EvalInit /\ FoldsInit
  /\ ExecutionInit /\ (part # "execution" => broker = Broker("backtest", 0, 0, 0, Zero))
  /\ BookInit /\ DiagnosisInit

Filling ==
  /\ part = "trades" /\ TradesNext
  /\ UNCHANGED <<part, equity_curve, settled, executionVars, healthVars, folds,
                 registryVars, evalVars, bookVars, rows>>

(* A report is of at most three fills, at two of the three prices.         *)
Reporting ==
  /\ part = "performance" /\ PerfNext
  /\ fills' <= 3 /\ pos'.last # 120
  /\ UNCHANGED <<part, executionVars, healthVars, folds, registryVars, evalVars, bookVars, rows>>

Executing ==
  /\ part = "execution" /\ ExecutionNext
  /\ UNCHANGED <<part, tradeVars, equity_curve, settled, healthVars, folds,
                 registryVars, evalVars, bookVars, rows>>

Validating ==
  /\ part = "validation" /\ HealthNext
  /\ UNCHANGED <<part, tradeVars, equity_curve, settled, executionVars, folds,
                 registryVars, evalVars, bookVars, rows>>

Studying ==
  /\ part = "study" /\ RunFold
  /\ UNCHANGED <<part, tradeVars, equity_curve, settled, executionVars, healthVars,
                 registryVars, evalVars, bookVars, rows>>

Building ==
  /\ part = "alphas" /\ RegistryNext
  /\ UNCHANGED <<part, tradeVars, equity_curve, settled, executionVars, healthVars,
                 folds, evalVars, bookVars, rows>>

Evaluating ==
  /\ part = "evaluation" /\ EvalNext
  /\ UNCHANGED <<part, tradeVars, equity_curve, settled, executionVars, healthVars,
                 folds, registryVars, bookVars, rows>>

Diagnosing ==
  /\ part = "diagnosis" /\ NewRow
  /\ UNCHANGED <<part, tradeVars, equity_curve, settled, executionVars, healthVars, folds,
                 registryVars, evalVars, bookVars>>

Quoting ==
  /\ part = "book" /\ NewSnapshot
  /\ UNCHANGED <<part, tradeVars, equity_curve, settled, executionVars, healthVars, folds,
                 registryVars, evalVars, rows>>

MCNext == Filling \/ Reporting \/ Executing \/ Validating \/ Studying \/ Building \/ Evaluating
          \/ Diagnosing \/ Quoting

MCVars == <<part, tradeVars, equity_curve, settled, executionVars, healthVars, folds, registryVars,
            evalVars, bookVars, rows>>

MCSpec == MCInit /\ [][MCNext]_MCVars
=============================================================================
