\* Two instruments bought in one bar.
CONSTANTS
  a = a
  b = b
  SymbolSeq <- TwoSymbols
  Prices <- TwoPrices
  MaxBars = 2
  MaxIterations = 6
  InitialCapital = 12000
  DefaultQuantity = 2
  EntrySizes = {2}
  AllowShort = FALSE
  SlippageBps = 1000
  MinCommission = 1
  CommissionDivisor = 1000
  MaxPositionSize = 100
  MaxPositionPct = 100
  MaxGrossPct = 100
  MaxDailyLossPct = 100
  MaxOpenPositions = 1
  OneDollar = 12
SPECIFICATION Spec
INVARIANT MaxOpenRespected
CHECK_DEADLOCK FALSE
