\* The fourth fill reduces a position of at most 6 units, and 60 is a multiple of
\* 1 to 6: every average cost is whole.
CONSTANTS
  Prices = {60, 120, 180}
  Quantities = {1, 2}
  Commissions = {1}
  MaxFills = 4
  InitialCapital = 1000
  MaxBars = 3
  Closes = {100000, 120000}
  Volumes = {0, 16, 400}
  DefaultAdv = 1000
  OrderSizes = {0, 1, 4, 9}
  Brokers <- MCBrokers
  Spreads = {0, 20}
  MaxOrders = 2
  MaxMarketBars = 2
  Versions = {"v1"}
  ProfileIds = {"p"}
  Profiles <- MCProfiles
  Live <- LiveMetrics
  MaxReports = 2
  Names <- MCNames
  Classes <- MCClasses
  Categories = {"ORDERBOOK", "CUSTOM"}
  MaxCreated = 2
  Observations <- MCObservations
  MaxRows = 6
  Others <- MCOthers
  MaxOthers = 3
  Exponents = {0, 1, 2}
  MaxLag = 4
  Results <- FoldResults
  BarsPerFold = 3
  MaxFolds = 3
  Snapshots <- MCSnapshots
  MaxSnapshots = 2
  Scale = 1000
  Reflection = 400
  Symbols = {"a", "b"}
  RunBars <- RunRows
  MaxRunRows = 5
  MaxLeverage = 200
  TargetVol = 10
  MinReturns = 3
  TopN = 2
SPECIFICATION MCSpec
INVARIANTS
  BooksAgree
  TradesAddUp
  ReportsAgree
  ExecutionSound
  WorseIsNoHealthier
  StudySound
  FactoryIsSound
  EvaluationIsSound
  DiagnosisSound
  BookIsReadAlike
CHECK_DEADLOCK FALSE
