\* A window whose reading failed half-way is placed again from its start.
SPECIFICATION Spec
CONSTANTS
  s1 = s1
  s2 = s2
  NumChunks = 5
  WindowSize = 2
  QueueThreshold = 2
  WaitThreshold = 1
  Locations <- PrimaryFirst
  Transient = {s1}
  MaxReadFaults = 1
INVARIANT PlacedOnce
CHECK_DEADLOCK FALSE
