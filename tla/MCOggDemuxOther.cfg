SPECIFICATION Spec
CONSTANTS
  Videos <- AllVideos
  ReadUnits = 4
  HeaderPackets = 3
  MaxDamaged = 0
CHECK_DEADLOCK FALSE
PROPERTIES
  OtherStreamsDropped
