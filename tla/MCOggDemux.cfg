SPECIFICATION FairSpec
CONSTANTS
  Videos <- AllVideos
  ReadUnits = 4
  HeaderPackets = 3
  MaxDamaged = 2
CHECK_DEADLOCK FALSE
INVARIANTS
  IInv
  NothingVanishes
  SoundBeforeDamageIsPlayed
  AbortsWithCause
PROPERTIES
  PlayEnds
