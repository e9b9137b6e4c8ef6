CONSTANTS
    NClients <- MCNClients
    MaxExpected <- MCMaxExpected
SPECIFICATION Spec
INVARIANT ConnectionsCounted
CHECK_DEADLOCK FALSE
