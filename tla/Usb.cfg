SPECIFICATION MCSpec
CONSTANTS
  Requests <- AllRequests
  Packets = 2
  Budget <- QuietBudget
INVARIANTS TypeOK SelectionKept ControlOnEp0 NotReentered AnswersHost KnownAccepted AddressAgrees
PROPERTIES OnlyAfterConfiguration RequestDone
CHECK_DEADLOCK FALSE
