\* get_mysql_socket returns, so the final state has no successor.
CONSTANTS
    Fds <- MCFds
    MaxCandidates <- MCMaxCandidates
SPECIFICATION Spec
INVARIANTS
    TypeOK
    NoFdLeak
    TimeoutOnlyAfterTimeout
    WaitBounded
PROPERTIES
    Terminates
CHECK_DEADLOCK FALSE
