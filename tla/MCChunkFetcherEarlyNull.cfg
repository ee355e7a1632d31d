\* The reader is told NULL while chunks are still in the queue.
SPECIFICATION Spec
CONSTANTS
  s1 = s1
  s2 = s2
  NumChunks = 5
  WindowSize = 2
  QueueThreshold = 2
  WaitThreshold = 1
  Locations <- PrimaryFirst
  Transient = {s1}
  MaxReadFaults = 0
INVARIANT NullOnlyAtEnd
CHECK_DEADLOCK FALSE
