\* stop() returns and the stopped route takes no further step.
CONSTANTS
    c1 = c1
    c2 = c2
    tcp = tcp
    local = local
    none = none
    Clients <- MCClients
    Listeners <- MCListeners
    MaxConnections <- MCMaxConnections
    MaxConnectErrors <- MCMaxConnectErrors
    MaxAccepts <- MCMaxAccepts
    NoClient = none
SPECIFICATION Spec
INVARIANTS
    TypeOK
    ActiveCountsWorkers
PROPERTIES
    StopCompletes
CHECK_DEADLOCK FALSE
