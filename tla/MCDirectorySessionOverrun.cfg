\* A window of more CIDs than chunkStatuses holds, after a reply cut in two.
SPECIFICATION Spec
CONSTANTS
  ListSize = 5
  WindowSize = 2
PROPERTY WindowFits
CHECK_DEADLOCK FALSE
