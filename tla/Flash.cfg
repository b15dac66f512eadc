CONSTANTS
  FlashLen = 5
  MaxLen = 4
  Byte <- MCByte
  Blank = "FF"
  Garbage = "XX"
  ChipId = "BF"
  Data = {"a"}
  Faults <- Resets
SPECIFICATION FairSpec
INVARIANTS TypeOK CommandsObeyed
PROPERTIES ImplementsStore

CHECK_DEADLOCK FALSE
