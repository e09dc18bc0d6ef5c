SPECIFICATION FairSpec
CONSTANTS
  Packets = {p1, p2, p3, p4, p5, p6}
  NoPacket = NoPacket
  Capacity <- CapacityM
  RefillFails = TRUE
INVARIANTS AllGivenBack
PROPERTIES PacketListsSpec RefillEnds
CHECK_DEADLOCK FALSE
