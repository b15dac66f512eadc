SPECIFICATION Spec
CONSTANTS
  File = {"good", "bad"}
  BadFile = {"bad"}
  Command = {"help", "V", "C", "W", "E", "recfg"}
  HeaderLen = 1
  SizeLen = 1
  PadLen = 2
  MaxSize = 15
  DataLen <- MCDataLen
  BufLen = 5
  EpSize = 2
  FlashLen = 10
  KeyIdx = 2
  KeyBytes = {}
  Budget <- LoadBudget
PROPERTIES StoreComplete
