SPECIFICATION FairSpec
CONSTANTS
  Size = 3
  Data = {0, 1, 2, 3, 4, 5, 6, 7, 8, 9}
  SdrWr = 3
  DdrWr = 4
  SdrRd = 5
  DdrRd = 6
  Hash = 7
  Phantom = 8
  Float = 99
  EpSize = 2
  Packet <- AllPackets
  Budget <- BusBudget
INVARIANTS TypeOK RingUsedInBounds NoContention
PROPERTIES ImplementsProtocol PacketsHandled OnlyWritesWrite
