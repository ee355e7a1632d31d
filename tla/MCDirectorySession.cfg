\* Windows of 2, 2, 2 and 1 CIDs; replies come whole or in pieces.
SPECIFICATION FairSpec
CONSTANTS
  ListSize = 7
  WindowSize = 2
INVARIANTS IInv ServerSurvives WindowsInOrder AllCidsAtEnd BuffersSuffice
  FailsOnlyIfAbandoned EndsWhenTold
PROPERTY SessionEnds
CHECK_DEADLOCK FALSE
