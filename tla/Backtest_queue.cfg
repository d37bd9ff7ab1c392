\* Every kind of signal; the risk limits bind.
CONSTANTS
  a = a
  b = b
  SymbolSeq <- TwoSymbols
  Prices <- TwoPrices
  MaxBars = 3
  MaxIterations = 6
  InitialCapital = 2400
  DefaultQuantity = 2
  EntrySizes = {0, 1, 2}
  AllowShort = TRUE
  SlippageBps = 1000
  MinCommission = 1
  CommissionDivisor = 1000
  MaxPositionSize = 100
  MaxPositionPct = 20
  MaxGrossPct = 100
  MaxDailyLossPct = 5
  MaxOpenPositions = 1
  OneDollar = 12
SPECIFICATION Spec
INVARIANTS
  DrainedEachBar
  CausalOrder
  FullBookAdmitsNone
CHECK_DEADLOCK FALSE
