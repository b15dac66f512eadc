SPECIFICATION Spec
CONSTANTS
  Byte <- Bytes
  Budget <- Bounds
INVARIANTS TypeOK OneDriver SpiMaster CleanFeed
CHECK_DEADLOCK FALSE
