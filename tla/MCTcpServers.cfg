SPECIFICATION Spec
CONSTANTS
  Pcbs = {p1, p2, p3}
  NoPcb = NoPcb
  Servers <- MCServers
  SlotCount = 1
  OutSize = 1
  MaxRtx = 1
  Timeout = 1
PROPERTIES SlotsFollowPcbs KillsInOrder ConnectionsEnd
