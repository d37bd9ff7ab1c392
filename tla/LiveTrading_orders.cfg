\* Two sessions over two instruments.
CONSTANTS
  a = a
  b = b
  Symbols = {a, b}
  OrderQty = 3
  Timeline <- TwoInstants
  AllowShort = TRUE
  MaxSessions = 2
SPECIFICATION FairSpec
INVARIANTS
  FilledAsOrdered
  PositionIsFills
  OneEventLoop
PROPERTIES
  TerminalStays
  DrainEnds
  TasksEnd
CHECK_DEADLOCK FALSE
