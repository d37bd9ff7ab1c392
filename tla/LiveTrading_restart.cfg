\* A stop and a start while the feed sleeps.
CONSTANTS
  a = a
  b = b
  Symbols = {a, b}
  OrderQty = 3
  Timeline <- TwoInstants
  AllowShort = FALSE
  MaxSessions = 2
SPECIFICATION Spec
PROPERTY StoppedFeedSilent
CHECK_DEADLOCK FALSE
