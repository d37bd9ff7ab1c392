\* OrderSizes and volumes whose ratios are on either side of 1, 2, 5 and 10 percent.
CONSTANTS
  Closes = {100000, 120000}
  Volumes = {0, 16, 400}
  DefaultAdv = 1000
  OrderSizes = {0, 1, 4, 9}
  Brokers <- MCBrokers
  Spreads = {0, 20}
  MaxOrders = 2
  MaxMarketBars = 2
SPECIFICATION ExecutionSpec
INVARIANTS
  FreeModelsFillAtClose
CHECK_DEADLOCK FALSE
