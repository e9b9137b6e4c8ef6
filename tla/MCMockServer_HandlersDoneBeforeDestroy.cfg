CONSTANTS
    NClients <- MCNClients
    MaxExpected <- MCMaxExpected
SPECIFICATION Spec
INVARIANT HandlersDoneBeforeDestroy
CHECK_DEADLOCK FALSE
