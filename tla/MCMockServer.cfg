CONSTANTS
    NClients <- MCNClients
    MaxExpected <- MCMaxExpected
SPECIFICATION Spec
INVARIANTS
    JoinedOnce
PROPERTIES
    StopReturns
CHECK_DEADLOCK FALSE
