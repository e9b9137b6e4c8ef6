------------------------------ MODULE Connect ------------------------------
(***************************************************************************)
(* The outbound connect procedure of the router:                           *)
(* SocketOperations::get_mysql_socket together with the helpers it calls,  *)
(* connect_non_blocking_wait, connect_non_blocking_status and              *)
(* set_socket_blocking (src/unnamed/part_000).                             *)
(*                                                                         *)
(* getaddrinfo() yields a list of candidate addresses.  For each one the   *)
(* procedure opens a socket, makes it non-blocking and calls connect().    *)
(* An EINPROGRESS connect is followed by a poll() for writability bounded  *)
(* by the connect timeout and by a read of SO_ERROR.  A failed candidate   *)
(* has its socket closed and the next one is tried.  When every candidate *)
(* failed the result is -2 if the flag timeout_expired is set and -1       *)
(* otherwise; a connected socket is put back into blocking mode, gets      *)
(* TCP_NODELAY and is returned.                                            *)
(*                                                                         *)
(* Data is abstracted: an address is its index in the addrinfo list, an    *)
(* errno is one of a few names, and time is counted in whole connect       *)
(* timeouts spent waiting in poll().                                       *)
(***************************************************************************)
EXTENDS Integers, Sequences

CONSTANTS
    Fds,            \* the descriptor numbers socket() may hand out
    MaxCandidates   \* the longest addrinfo list getaddrinfo() returns

ASSUME FdsAssumption == Fds \subseteq Nat /\ Fds # {}
ASSUME MaxCandidatesAssumption == MaxCandidates \in Nat \ {0}

\* routing::kInvalidSocket, the initial value of sock
kInvalidSocket == -1

\* The errno values the procedure sets or observes.  "0" is no error.
Errnos == {"0", "EINPROGRESS", "ECONNREFUSED", "ETIMEDOUT", "EINVAL",
           "EINTR", "EMFILE"}

\* How a candidate ended: what the model records of each tried address.
Outcomes == {"nosocket", "refused", "timeout", "pollerror", "notwritable",
             "soerror", "connected"}

\* The program counter: the statement of get_mysql_socket the thread is at.
Labels == {"resolve", "loop", "connect", "wait", "status", "good", "done"}

VARIABLES
    pc,               \* where the calling thread is
    ncand,            \* length of the addrinfo list (0 before/without it)
    info,             \* index of the candidate 'info' points at
    sock,             \* the local variable sock
    open,             \* descriptors this call opened and has not closed
    nonblock,         \* O_NONBLOCK flag of each descriptor
    timeout_expired,  \* the local flag timeout_expired
    errno,            \* the calling thread's errno
    elapsed,          \* connect timeouts spent waiting in poll()
    tried,            \* outcome of each candidate tried so far, in order
    ret               \* the value returned (meaningful once pc = "done")

vars == <<pc, ncand, info, sock, open, nonblock, timeout_expired, errno,
          elapsed, tried, ret>>

-----------------------------------------------------------------------------
(* Helpers                                                                 *)

\* set_socket_blocking(sock, blocking): only O_NONBLOCK of sock changes.
SetSocketBlocking(fd, blocking) ==
    nonblock' = [nonblock EXCEPT ![fd] = ~blocking]

\* The end of a failed candidate: close(sock) and advance info.
CloseAndTryNext(outcome) ==
    /\ open' = open \ {sock}
    /\ info' = info + 1
    /\ tried' = Append(tried, outcome)
    /\ pc' = "loop"

-----------------------------------------------------------------------------
(* Initial state: a thread about to call get_mysql_socket.  Descriptors    *)
(* start blocking, as socket() creates them.                               *)

Init ==
    /\ pc = "resolve"
    /\ ncand = 0
    /\ info = 1
    /\ sock = kInvalidSocket
    /\ open = {}
    /\ nonblock = [fd \in Fds |-> FALSE]
    /\ timeout_expired = FALSE
    /\ errno = "0"
    /\ elapsed = 0
    /\ tried = <<>>
    /\ ret = kInvalidSocket

\* getaddrinfo(): fails (return -1), or yields 1..MaxCandidates entries.
GetAddrInfo ==
    /\ pc = "resolve"
    /\ \/ /\ ret' = -1
          /\ pc' = "done"
          /\ UNCHANGED ncand
       \/ \E n \in 1..MaxCandidates :
             /\ ncand' = n
             /\ pc' = "loop"
             /\ UNCHANGED ret
    /\ UNCHANGED <<info, sock, open, nonblock, timeout_expired, errno,
                   elapsed, tried>>

\* Loop head with a candidate left: socket() fails (sock = -1, logged, next
\* candidate, nothing to close) or returns a free descriptor, which
\* set_socket_blocking(sock, false) makes non-blocking.
OpenSocket ==
    /\ pc = "loop"
    /\ info <= ncand
    /\ \/ /\ sock' = -1
          /\ errno' = "EMFILE"
          /\ info' = info + 1
          /\ tried' = Append(tried, "nosocket")
          /\ UNCHANGED <<pc, open, nonblock>>
       \/ \E fd \in Fds \ open :
             /\ sock' = fd
             /\ open' = open \cup {fd}
             /\ nonblock' = [nonblock EXCEPT ![fd] = TRUE]
             /\ pc' = "connect"
             /\ UNCHANGED <<errno, info, tried>>
    /\ UNCHANGED <<ncand, timeout_expired, elapsed, ret>>

\* connect(): succeeds at once, is in progress (EINPROGRESS), or fails at
\* once (the default branch: log, close, next candidate).
Connect ==
    /\ pc = "connect"
    /\ \/ /\ pc' = "good"
          /\ UNCHANGED <<errno, open, info, tried>>
       \/ /\ errno' = "EINPROGRESS"
          /\ pc' = "wait"
          /\ UNCHANGED <<open, info, tried>>
       \/ /\ errno' = "ECONNREFUSED"
          /\ CloseAndTryNext("refused")
    /\ UNCHANGED <<ncand, sock, nonblock, timeout_expired, elapsed, ret>>

\* Mutant of WaitFailed: every failed wait is taken for a timeout.
WaitFailedAlwaysTimeout(e, outcome) ==
    /\ errno' = e
    /\ timeout_expired' = TRUE
    /\ CloseAndTryNext(outcome)

\* get_mysql_socket after a failed connect_non_blocking_wait(): it logs,
\* assigns timeout_expired = (errno == ETIMEDOUT) and gives the candidate
\* up.
WaitFailed(e, outcome) ==
    /\ errno' = e
    /\ timeout_expired' = (e = "ETIMEDOUT")
    /\ CloseAndTryNext(outcome)

\* Mutant of Wait: a poll() that timed out is retried on the same socket,
\* as an EINTR would be.
WaitRetryOnTimeout ==
    /\ pc = "wait"
    /\ \/ /\ errno' = "ETIMEDOUT"
          /\ elapsed' = elapsed + 1
          /\ UNCHANGED <<pc, timeout_expired, open, info, tried>>
       \/ /\ WaitFailed("EINTR", "pollerror")
          /\ UNCHANGED elapsed
       \/ /\ WaitFailed("EINVAL", "notwritable")
          /\ UNCHANGED elapsed
       \/ /\ pc' = "status"
          /\ UNCHANGED <<errno, timeout_expired, elapsed, open, info, tried>>
    /\ UNCHANGED <<ncand, sock, nonblock, ret>>

\* connect_non_blocking_wait(): poll() for POLLOUT, bounded by the connect
\* timeout.  poll() returning 0 has waited a whole timeout and sets
\* ETIMEDOUT; poll() < 0 leaves its own errno (EINTR, say); a ready socket
\* without POLLOUT gives EINVAL; a writable one goes on to the status.
Wait ==
    /\ pc = "wait"
    /\ \/ /\ WaitFailed("ETIMEDOUT", "timeout")
          /\ elapsed' = elapsed + 1
       \/ /\ WaitFailed("EINTR", "pollerror")
          /\ UNCHANGED elapsed
       \/ /\ WaitFailed("EINVAL", "notwritable")
          /\ UNCHANGED elapsed
       \/ /\ pc' = "status"
          /\ UNCHANGED <<errno, timeout_expired, elapsed, open, info, tried>>
    /\ UNCHANGED <<ncand, sock, nonblock, ret>>

\* Mutant of Status: a non-zero SO_ERROR sends the thread back to poll().
StatusRepoll ==
    /\ pc = "status"
    /\ \/ /\ pc' = "good"
          /\ UNCHANGED <<open, info, tried>>
       \/ /\ pc' = "wait"
          /\ UNCHANGED <<open, info, tried>>
    /\ UNCHANGED <<ncand, sock, nonblock, timeout_expired, errno, elapsed,
                   ret>>

\* connect_non_blocking_status(): SO_ERROR is 0 (connected) or not, in
\* which case the candidate is given up and timeout_expired is untouched.
Status ==
    /\ pc = "status"
    /\ \/ /\ pc' = "good"
          /\ UNCHANGED <<open, info, tried>>
       \/ CloseAndTryNext("soerror")
    /\ UNCHANGED <<ncand, sock, nonblock, timeout_expired, errno, elapsed,
                   ret>>

\* Mutant of AllFailed: 0, a valid descriptor number, returned on failure.
AllFailedReturnsZero ==
    /\ pc = "loop"
    /\ info > ncand
    /\ ret' = IF timeout_expired THEN -2 ELSE 0
    /\ pc' = "done"
    /\ UNCHANGED <<ncand, info, sock, open, nonblock, timeout_expired, errno,
                   elapsed, tried>>

\* After the loop with info == nullptr: every candidate failed.
AllFailed ==
    /\ pc = "loop"
    /\ info > ncand
    /\ ret' = IF timeout_expired THEN -2 ELSE -1
    /\ pc' = "done"
    /\ UNCHANGED <<ncand, info, sock, open, nonblock, timeout_expired, errno,
                   elapsed, tried>>

\* Mutant of Connected: the TCP_NODELAY failure path forgets close(sock).
ConnectedLeakOnNodelay ==
    /\ pc = "good"
    /\ SetSocketBlocking(sock, TRUE)
    /\ tried' = Append(tried, "connected")
    /\ \/ ret' = sock
       \/ ret' = -1
    /\ pc' = "done"
    /\ UNCHANGED <<ncand, info, sock, open, timeout_expired, errno, elapsed>>

\* A connected candidate: set_socket_blocking(sock, true), then
\* setsockopt(TCP_NODELAY); if that fails the socket is closed and -1
\* returned, otherwise sock is returned.
Connected ==
    /\ pc = "good"
    /\ SetSocketBlocking(sock, TRUE)
    /\ tried' = Append(tried, "connected")
    /\ \/ /\ ret' = sock
          /\ UNCHANGED open
       \/ /\ ret' = -1
          /\ open' = open \ {sock}
    /\ pc' = "done"
    /\ UNCHANGED <<ncand, info, sock, timeout_expired, errno, elapsed>>

Next ==
    \/ GetAddrInfo
    \/ OpenSocket
    \/ Connect
    \/ Wait
    \/ Status
    \/ AllFailed
    \/ Connected

\* The calling thread keeps running: every blocking call it makes (poll
\* bounded by the timeout, connect on a non-blocking socket) returns.
Spec == Init /\ [][Next]_vars /\ WF_vars(Next)

-----------------------------------------------------------------------------
(* Properties                                                              *)

TypeOK ==
    /\ pc \in Labels
    /\ ncand \in 0..MaxCandidates
    /\ info \in 1..(MaxCandidates + 1)
    /\ sock \in Fds \cup {kInvalidSocket}
    /\ open \subseteq Fds
    /\ nonblock \in [Fds -> BOOLEAN]
    /\ timeout_expired \in BOOLEAN
    /\ errno \in Errnos
    /\ elapsed \in 0..MaxCandidates
    /\ tried \in Seq(Outcomes)
    /\ ret \in Fds \cup {-2, -1}

\* No descriptor leaks out of get_mysql_socket: when it returns, the only
\* descriptor it opened that is still open is the one it returns, and that
\* one is in blocking mode (the relay does blocking I/O on it).
NoFdLeak ==
    pc = "done" =>
        /\ open = (IF ret \in Fds THEN {ret} ELSE {})
        /\ ret \in Fds => ~nonblock[ret]

\* Some candidate's poll() timed out, according to the outcomes t.
HasTimedOut(t) == \E i \in 1..Len(t) : t[i] = "timeout"

\* -2 ("timed out") is returned only after some candidate's poll() really
\* timed out: timeout_expired, set by one candidate and kept or reset by
\* the later ones, never reports a timeout that did not happen.
TimeoutOnlyAfterTimeout ==
    (pc = "done" /\ ret = -2) => HasTimedOut(tried)

\* A dial waits at most one connect timeout per address getaddrinfo()
\* returned: a candidate whose poll() timed out is given up, never polled
\* again, so the worst case is ncand whole timeouts, one after another.
WaitBounded == elapsed <= ncand

\* get_mysql_socket returns.
Terminates == <>(pc = "done")

\* The abstract dial under the refinement mapping: the call is done when
\* pc is; what it holds on return is the descriptors still open; an
\* attempt has timed out when a candidate's poll() did.
Contract == INSTANCE DialContract WITH
    dial     <- IF pc = "done" THEN "done" ELSE "idle",
    result   <- ret,
    held     <- IF pc = "done" THEN open ELSE {},
    timedOut <- HasTimedOut(tried)

-----------------------------------------------------------------------------
(* What spec.md (section 4.5, step 5) says of the procedure, stated over *)
(* the model.  The run that expects it to be violated checks it.         *)

\* Spec 4.5 step 5: when every candidate failed, the result is "timed out"
\* (-2) exactly when the final errno is ETIMEDOUT.
TimeoutIffFinalErrno ==
    (pc = "done" /\ "connected" \notin {tried[i] : i \in 1..Len(tried)}
                 /\ ret < 0)
        => (ret = -2 <=> errno = "ETIMEDOUT")

=============================================================================
