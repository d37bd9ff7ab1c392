\* A grid search for the mildest drawdown.
CONSTANTS
  Times <- OneSymbol
  Periods <- TwoBars
  FoldLimits = {0}
  ParamLists <- OneParameter
  Optimizers = {"grid"}
  NIter = 1
  Objectives = {"max_drawdown_pct"}
  Metrics <- Drawdowns
  MaxRuns = 1
SPECIFICATION WalkSpec
INVARIANT MildestDrawdownChosen
CHECK_DEADLOCK FALSE
