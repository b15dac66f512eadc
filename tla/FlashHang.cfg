CONSTANTS
  FlashLen = 3
  MaxLen = 3
  Byte <- MCByte
  Blank = "FF"
  Garbage = "XX"
  ChipId = "BF"
  Data = {"a"}
  Faults <- Resets
SPECIFICATION FairSpec
PROPERTIES EraseReturns
CHECK_DEADLOCK FALSE
