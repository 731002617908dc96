CONSTANTS
  PacketSize = 3
  PacketNum = 4
  Sizes <- MCSizes
SPECIFICATION SafeSpec
INVARIANTS RolledBackWhenFull
