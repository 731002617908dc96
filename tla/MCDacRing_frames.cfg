CONSTANTS
  N = 4
  Silence = 0
  MaxOverflow = 2
  Samples <- MCSamples
  Packets <- MCPackets
SPECIFICATION SafeSpec
PROPERTIES EveryFrameStored
