\* The windows are of 2, 2 and 1 chunks; the threshold lets a second window in
\* on top of a first, and the queue then makes the fetcher wait.  The primary
\* server may lose any part of the video at any time, the second keeps it.
\* Either thread may be the last to move: exit(-1) ends both, Escape ends the
\* player and then the full queue stops the fetcher.
SPECIFICATION FairSpec
CONSTANTS
  s1 = s1
  s2 = s2
  NumChunks = 5
  WindowSize = 2
  QueueThreshold = 2
  WaitThreshold = 1
  Locations <- PrimaryFirst
  Transient = {s1}
  MaxReadFaults = 1
INVARIANTS IInv Fifo FrontIsPopped QueueBounded NoGaps
  PlacedOnceUnlessReadFails EndOfFileIsComplete
PROPERTIES ImplementsPipe PlayerReachesEnd
CHECK_DEADLOCK FALSE
