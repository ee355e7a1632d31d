SPECIFICATION FairSpec
CONSTANTS
  s1 = s1
  s2 = s2
  s3 = s3
  Directory <- ThreeServers
CHECK_DEADLOCK FALSE
INVARIANTS
  IInv
  MissedOnlyBehindDeadAd
  EarlierServerFirst
PROPERTIES
  FailoverReachesChunk
