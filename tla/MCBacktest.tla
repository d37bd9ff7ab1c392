----------------------------- MODULE MCBacktest -----------------------------
(* Instances of Backtest for TLC.  Money is counted in twelfths of a dollar *)
(* so that an average cost over up to four units is whole.                  *)
EXTENDS Backtest, TLC

CONSTANTS a, b

TwoSymbols == <<a, b>>
OneSymbol == <<a>>
TwoPrices == {120, 240}
=============================================================================
