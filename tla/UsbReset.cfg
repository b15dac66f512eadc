SPECIFICATION MCSpec
CONSTANTS
  Requests <- AllRequests
  Packets = 2
  Budget <- ResetBudget

PROPERTIES MainRuns
CHECK_DEADLOCK FALSE
