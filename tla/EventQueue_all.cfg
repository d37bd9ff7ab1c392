\* All four methods together, under fair threads.
CONSTANTS
  Producers = {p1}
  Controllers = {k1}
  Consumers = {c1, c2}
  Flushers = {f1}
  MaxCalls = 2
  NoThread = NoThread
  NoEvent = NoEvent
SPECIFICATION FairSpec
INVARIANTS
  CountersBalance
  DepthNotNegative
  ExactlyOnce
  PriorityOvertakesBuffered
PROPERTIES
  RefinesFifo
  EventuallyTaken
