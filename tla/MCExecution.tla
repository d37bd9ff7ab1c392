---------------------------- MODULE MCExecution ----------------------------
(***************************************************************************)
(* The brokers of Execution: the backtest's default, its other commission  *)
(* models, paper trading as examples/run_paper_trading.py sets it up, with *)
(* a volatility multiplier, and as the tests do, with models that charge   *)
(* nothing.                                                                *)
(***************************************************************************)
EXTENDS Execution

MCBrokers ==
  {Broker("backtest", 5, 0, 0, Percentage(1, 0)), Broker("backtest", 5, 0, 0, Percentage(1, 900)),
   Broker("backtest", 0, 0, 0, FlatFee(500)), Broker("backtest", 0, 0, 0, Zero),
   Broker("paper", 5, 0, 10, Percentage(1, 0)), Broker("paper", 5, 1, 10, Percentage(1, 0)),
   Broker("paper", 0, 0, 10, Percentage(0, 0)), Broker("paper", 0, 0, 0, Percentage(0, 0))}
=============================================================================
