\* Checks what spec.md section 8 states against the modelled route; expected to fail.
CONSTANTS
    c1 = c1
    c2 = c2
    tcp = tcp
    local = local
    none = none
    Clients <- MCClients
    Listeners <- MCListeners
    MaxConnections <- MCMaxConnections
    MaxConnectErrors <- MCMaxConnectErrors
    MaxAccepts <- MCMaxAccepts
    NoClient = none
SPECIFICATION Spec
INVARIANT ActiveWithinMax
CHECK_DEADLOCK FALSE
