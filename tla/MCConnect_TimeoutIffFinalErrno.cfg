\* Checks what spec.md section 4.5 says against the code; expected to fail.
CONSTANTS
    Fds <- MCFds
    MaxCandidates <- MCMaxCandidates
SPECIFICATION Spec
INVARIANT TimeoutIffFinalErrno
CHECK_DEADLOCK FALSE
