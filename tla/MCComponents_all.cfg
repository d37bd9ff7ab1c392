CONSTANTS
  Kinds = {"vwap", "zscore", "volume", "composite", "sma", "rsi", "ema"}
  Prices = {98, 100, 103}
  Window = 4
  VolLookback = 5
  MaxHolding = 3
  StopPct = 2
  EntryZ = 200
  ExitZs = {40, 50}
  EntryZs = {100, 120}
  Readings = {1, 2, 3}
  Slopes = {0, 30}
  Adxs = {10, 40}
  VolWindow = 1
  HistoryLength = 3
  MinHistory = 2
  MinHmm = 2
  MinForecast = 1
  RefitEvery = 2
  MaxBars = 5
  Period = 3
  MaxRows = 7
  Ids = {"h1", "h2"}
  MaxQueue = 2
  MaxCrashes = 2
  Targets <- MCTargets
  DepthZ <- MCDepthZ
  SpreadZ <- MCSpreadZ
  MicropriceZ <- MCMicropriceZ
  CachedMetrics <- MCCachedMetrics
  BlendMethods = {"INFORMATION_RATIO", "INVERSE_VOLATILITY"}
  Ics <- MCIcs
  Target = 5
  Threshold = 50
  Warning = 4
  Critical <- MCCritical
  MinObservations = 2
  MaxReports = 4
  Times <- MCTimes
  Periods <- MCPeriods
  FoldLimits = {0, 1}
  ParamLists <- MCParamLists
  Optimizers = {"grid", "random"}
  NIter = 1
  Objectives = {"sharpe_ratio"}
  Metrics <- MCMetrics
  MaxRuns = 1
  Names = {"a", "b"}
  Evaluations <- MCEvaluations
  MaxPct = 60
  MinCapacity = 0
  Tiers <- MCTiers
  Drawdowns = {2, 5}
  MaxDeployed = 2
  MaxTicks = 1
  Symbols = {"A", "B", "C"}
  Vols = {0, 10}
  Signals <- MCSignals
  Groups = {"x", "unknown"}
  Limits <- MCLimits
  MaxPositionPct = 20
  TargetVol = 20
  RiskFraction = 10
  DefaultQuantity = 100
  Quotes = {7, 300}
  Equities = {0, 1000}
  MaxCalls = 1
  Files <- MCFiles
  FillMethods = {"ffill", "bfill", "drop", "none"}
  MinRows = 3
  ZWindow = 3
  MinPeriods = 2
  Thresholds = {0, 1}
SPECIFICATION MCSpec
INVARIANTS
  ExitsHonoured
  StudyIsSound
  OnlineIsBatch
  ServedFromBuffer
  TestingIsRunning
  ScoredAsTraded
  CapsHold
  DegradationNoticed
  FrameIsSound
PROPERTIES
  ContractKept
  NoRepaint
  TasksStop
CHECK_DEADLOCK FALSE
