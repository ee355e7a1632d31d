\* A packet may be empty, shorter or longer than a frame; the device holds more than one.
CONSTANTS
  Packets = 7
  Frames = 4
  PacketTicks = {0, 1, 2, 3}
  FrameTicks = 2
  Buffer = 3
SPECIFICATION Spec
INVARIANTS IInv PictureInStep
CHECK_DEADLOCK FALSE
