----------------------------- MODULE MockServer -----------------------------
(***************************************************************************)
(* The MockServer of the routing unit tests (src/src/routing/tests/       *)
(* test_routing.cc:183-275) as the test bug_24841281 drives it: the test   *)
(* thread constructs and start()s it, calls stop_after_n_accepts(), lets   *)
(* the router connect, calls stop() and finally destroys it (the           *)
(* destructor calls stop() again).  start() spawns the runloop thread; the *)
(* runloop accepts connections and spawns one detached new_client thread   *)
(* per connection, which counts itself in num_connections_, blocks in      *)
(* read() until the router sends the bye message or closes, closes the     *)
(* socket and counts itself out.                                           *)
(*                                                                         *)
(* num_connections_++ and -- on the plain int are a load and a store each, *)
(* so other threads may run in between.  The listening socket follows      *)
(* Linux: shutdown() wakes a thread blocked in accept() with an error,     *)
(* close() alone does not, and accept() on a closed descriptor fails at    *)
(* once (EBADF).                                                           *)
(***************************************************************************)
EXTENDS Integers, FiniteSets

CONSTANTS
    NClients,     \* connections the router opens to the server
    MaxExpected   \* the argument of stop_after_n_accepts()

ASSUME MockServerAssumption ==
    /\ NClients \in Nat \ {0}
    /\ MaxExpected \in Nat \ {0}

\* A new_client thread is known by the number of the accept that spawned it.
Conns == 1..NClients

\* The statements of new_client: not spawned, the two halves of
\* num_connections_++, blocked in read(), the two halves of
\* num_connections_--, returned normally, or returned through FAIL().
HandlerStates == {"none", "inc_load", "inc_store", "read", "dec_load",
                  "dec_store", "done", "failed"}

\* The test thread: about to start(), running, inside the first stop()
\* (server.stop()) or the second (from ~MockServer), or gone.
MainStates == {"constructed", "running", "stop", "shutdown", "close", "join",
               "destroyed"}

VARIABLES
    main,         \* where the test thread is
    calls,        \* stop() calls begun (the explicit one, the destructor's)
    stop_,        \* the member stop_
    maxExp,       \* max_expected_accepts_
    numAccepts,   \* num_accepts_
    numConns,     \* num_connections_
    shut,         \* shutdown() was called on service_tcp_
    closed,       \* service_tcp_ is closed
    backlog,      \* connections queued on the listening socket
    dialed,       \* connections the router has opened
    rl,           \* the runloop thread: "none", "check", "accept", "exited"
    h,            \* each new_client thread's statement
    tmp,          \* each new_client thread's register in ++ and --
    bye,          \* the peer of each accepted connection has sent bye/closed
    joins         \* thread_.join() calls made

vars == <<main, calls, stop_, maxExp, numAccepts, numConns, shut, closed,
          backlog, dialed, rl, h, tmp, bye, joins>>

\* new_client threads between their ++ and their --.
Counted == {k \in Conns : h[k] \in {"read", "dec_load", "dec_store", "failed"}}

-----------------------------------------------------------------------------

\* The constructor has bound and listened; stop_ is not yet initialised,
\* and start() assigns it before anything reads it.
Init ==
    /\ main = "constructed"
    /\ calls = 0
    /\ stop_ = FALSE
    /\ maxExp = 0
    /\ numAccepts = 0
    /\ numConns = 0
    /\ shut = FALSE
    /\ closed = FALSE
    /\ backlog = 0
    /\ dialed = 0
    /\ rl = "none"
    /\ h = [k \in Conns |-> "none"]
    /\ tmp = [k \in Conns |-> 0]
    /\ bye = [k \in Conns |-> FALSE]
    /\ joins = 0

\* start(): stop_ = false and the runloop thread is spawned.
Start ==
    /\ main = "constructed"
    /\ main' = "running"
    /\ stop_' = FALSE
    /\ rl' = "check"
    /\ UNCHANGED <<calls, maxExp, numAccepts, numConns, shut, closed, backlog,
                   dialed, h, tmp, bye, joins>>

\* stop_after_n_accepts(c), called by the test after start().
StopAfterNAccepts ==
    /\ main = "running"
    /\ maxExp = 0
    /\ maxExp' = MaxExpected
    /\ UNCHANGED <<main, calls, stop_, numAccepts, numConns, shut, closed,
                   backlog, dialed, rl, h, tmp, bye, joins>>

\* The router opens a connection to the server: it is queued on the
\* listening socket until the runloop accepts it.  Connections are taken
\* from the queue in order, so the k-th accept takes the k-th connection.
Dial ==
    /\ main = "running"
    /\ dialed < NClients
    /\ ~shut /\ ~closed
    /\ dialed' = dialed + 1
    /\ backlog' = backlog + 1
    /\ UNCHANGED <<main, calls, stop_, maxExp, numAccepts, numConns, shut,
                   closed, rl, h, tmp, bye, joins>>

\* The router's side of connection k sends the bye message or closes it
\* (as routing.stop() does), whether or not the server has accepted it.
Bye(k) ==
    /\ k <= dialed
    /\ ~bye[k]
    /\ bye' = [bye EXCEPT ![k] = TRUE]
    /\ UNCHANGED <<main, calls, stop_, maxExp, numAccepts, numConns, shut,
                   closed, backlog, dialed, rl, h, tmp, joins>>

-----------------------------------------------------------------------------
(* The runloop thread                                                      *)

\* The loop condition: !stop_ && (max_expected_accepts_ == 0 ||
\* num_accepts_ < max_expected_accepts_).  When it holds, accept() is
\* called: on a closed descriptor it fails at once and the loop continues;
\* otherwise the thread blocks in it.
RunloopCheck ==
    /\ rl = "check"
    /\ rl' = IF ~stop_ /\ (maxExp = 0 \/ numAccepts < maxExp)
                THEN IF closed THEN "check" ELSE "accept"
                ELSE "exited"
    /\ UNCHANGED <<main, calls, stop_, maxExp, numAccepts, numConns, shut,
                   closed, backlog, dialed, h, tmp, bye, joins>>

\* accept() returns: a queued connection is taken, num_accepts_++ and a
\* detached new_client thread is spawned for it; or the socket was shut
\* down and accept() fails, and the loop continues.
RunloopAccept ==
    /\ rl = "accept"
    /\ \/ /\ backlog > 0 /\ ~shut /\ ~closed
          /\ backlog' = backlog - 1
          /\ numAccepts' = numAccepts + 1
          /\ h' = [h EXCEPT ![numAccepts + 1] = "inc_load"]
       \/ /\ shut
          /\ UNCHANGED <<backlog, numAccepts, h>>
    /\ rl' = "check"
    /\ UNCHANGED <<main, calls, stop_, maxExp, numConns, shut, closed, dialed,
                   tmp, bye, joins>>

-----------------------------------------------------------------------------
(* The new_client threads                                                  *)

\* num_connections_++: the load, then the store.
IncLoad(k) ==
    /\ h[k] = "inc_load"
    /\ tmp' = [tmp EXCEPT ![k] = numConns]
    /\ h' = [h EXCEPT ![k] = "inc_store"]
    /\ UNCHANGED <<main, calls, stop_, maxExp, numAccepts, numConns, shut,
                   closed, backlog, dialed, rl, bye, joins>>

IncStore(k) ==
    /\ h[k] = "inc_store"
    /\ numConns' = tmp[k] + 1
    /\ h' = [h EXCEPT ![k] = "read"]
    /\ UNCHANGED <<main, calls, stop_, maxExp, numAccepts, shut, closed,
                   backlog, dialed, rl, tmp, bye, joins>>

\* read() returns once the peer has sent bye or closed.  It succeeds (data
\* or EOF) and the socket is closed; or it fails (a reset connection) and
\* FAIL() returns from new_client, skipping close() and the decrement.
Read(k) ==
    /\ h[k] = "read"
    /\ bye[k]
    /\ h' = [h EXCEPT ![k] = "dec_load"] \/ h' = [h EXCEPT ![k] = "failed"]
    /\ UNCHANGED <<main, calls, stop_, maxExp, numAccepts, numConns, shut,
                   closed, backlog, dialed, rl, tmp, bye, joins>>

\* num_connections_--: the load, then the store.
DecLoad(k) ==
    /\ h[k] = "dec_load"
    /\ tmp' = [tmp EXCEPT ![k] = numConns]
    /\ h' = [h EXCEPT ![k] = "dec_store"]
    /\ UNCHANGED <<main, calls, stop_, maxExp, numAccepts, numConns, shut,
                   closed, backlog, dialed, rl, bye, joins>>

DecStore(k) ==
    /\ h[k] = "dec_store"
    /\ numConns' = tmp[k] - 1
    /\ h' = [h EXCEPT ![k] = "done"]
    /\ UNCHANGED <<main, calls, stop_, maxExp, numAccepts, shut, closed,
                   backlog, dialed, rl, tmp, bye, joins>>

-----------------------------------------------------------------------------
(* The test thread: server.stop(), then ~MockServer's stop()               *)

\* Returning from stop(): the destructor calls it a second time, and after
\* that the object is gone.
StopReturn ==
    IF calls = 1 THEN main' = "stop" /\ calls' = 2
                 ELSE main' = "destroyed" /\ calls' = calls

\* bug_24841281 calls server.stop() after routing.stop(), which has closed
\* every connection the router opened to the server; the router opens no
\* more.
BeginStop ==
    /\ main = "running"
    /\ maxExp # 0
    /\ \A k \in 1..dialed : bye[k]
    /\ main' = "stop"
    /\ calls' = 1
    /\ UNCHANGED <<stop_, maxExp, numAccepts, numConns, shut, closed, backlog,
                   dialed, rl, h, tmp, bye, joins>>

\* Mutant of StopCheck: the if (!stop_) guard is left out.
StopCheckNoGuard ==
    /\ main = "stop"
    /\ stop_' = TRUE
    /\ main' = "shutdown"
    /\ UNCHANGED <<calls, maxExp, numAccepts, numConns, shut, closed, backlog,
                   dialed, rl, h, tmp, bye, joins>>

\* if (!stop_) { stop_ = true; ... }: a second call returns at once.
StopCheck ==
    /\ main = "stop"
    /\ IF ~stop_ THEN stop_' = TRUE /\ main' = "shutdown" /\ UNCHANGED calls
                 ELSE StopReturn /\ UNCHANGED stop_
    /\ UNCHANGED <<maxExp, numAccepts, numConns, shut, closed, backlog,
                   dialed, rl, h, tmp, bye, joins>>

\* Mutant of Shutdown: shutdown(service_tcp_) is left out.
ShutdownSkipped ==
    /\ main = "shutdown"
    /\ main' = "close"
    /\ UNCHANGED <<calls, stop_, maxExp, numAccepts, numConns, shut, closed,
                   backlog, dialed, rl, h, tmp, bye, joins>>

\* shutdown(service_tcp_): a blocked accept() wakes with an error and the
\* queued connections are reset.
Shutdown ==
    /\ main = "shutdown"
    /\ shut' = TRUE
    /\ backlog' = 0
    /\ main' = "close"
    /\ UNCHANGED <<calls, stop_, maxExp, numAccepts, numConns, closed, dialed,
                   rl, h, tmp, bye, joins>>

\* close(service_tcp_).
Close ==
    /\ main = "close"
    /\ closed' = TRUE
    /\ backlog' = 0
    /\ main' = "join"
    /\ UNCHANGED <<calls, stop_, maxExp, numAccepts, numConns, shut, dialed,
                   rl, h, tmp, bye, joins>>

\* thread_.join(): waits for the runloop to return.
Join ==
    /\ main = "join"
    /\ rl = "exited"
    /\ joins' = joins + 1
    /\ StopReturn
    /\ UNCHANGED <<stop_, maxExp, numAccepts, numConns, shut, closed, backlog,
                   dialed, rl, h, tmp, bye>>

Handler(k) ==
    IncLoad(k) \/ IncStore(k) \/ Read(k) \/ DecLoad(k) \/ DecStore(k)

Next ==
    \/ Start \/ StopAfterNAccepts \/ Dial \/ \E k \in Conns : Bye(k)
    \/ RunloopCheck \/ RunloopAccept
    \/ \E k \in Conns : Handler(k)
    \/ BeginStop \/ StopCheck \/ Shutdown \/ Close \/ Join

\* Threads that can run do run: the runloop, every new_client thread and
\* the test thread inside stop().  The router's connects and closes, and
\* the test's decision to stop, are not forced.
Fairness ==
    /\ WF_vars(RunloopCheck) /\ WF_vars(RunloopAccept)
    /\ \A k \in Conns : WF_vars(Handler(k))
    /\ WF_vars(StopCheck) /\ WF_vars(Shutdown) /\ WF_vars(Close)
    /\ WF_vars(Join)

Spec == Init /\ [][Next]_vars /\ Fairness

-----------------------------------------------------------------------------
(* Properties                                                              *)

TypeOK ==
    /\ main \in MainStates
    /\ calls \in 0..2
    /\ stop_ \in BOOLEAN /\ shut \in BOOLEAN /\ closed \in BOOLEAN
    /\ maxExp \in {0, MaxExpected}
    /\ numAccepts \in 0..NClients
    /\ numConns \in Int
    /\ backlog \in 0..NClients /\ dialed \in 0..NClients
    /\ rl \in {"none", "check", "accept", "exited"}
    /\ h \in [Conns -> HandlerStates]
    /\ tmp \in [Conns -> Int]
    /\ bye \in [Conns -> BOOLEAN]
    /\ joins \in Nat

\* thread_ is joined exactly once over the two stop() calls (the explicit
\* one and the destructor's), even when the runloop has already returned by
\* itself after max_expected_accepts_ accepts: joining it again would throw
\* std::system_error from the destructor.
JoinedOnce == (main = "destroyed" => joins = 1) /\ joins <= 1

\* stop() returns, and so does the destructor's: the runloop blocked in
\* accept() is woken by the shutdown and sees stop_.
StopReturns == (main = "stop") ~> (main = "destroyed")

-----------------------------------------------------------------------------
(* What the test expects, checked by runs that expect a violation.         *)

\* bug_24841281 expects num_connections_ to be the number of new_client
\* threads that have counted themselves in and not out (EXPECT_EQ(2,
\* server.num_connections_) and the like).
ConnectionsCounted == numConns = Cardinality(Counted)

\* No new_client thread touches the MockServer after the test destroyed it:
\* when the destructor has returned, every spawned thread has returned.
HandlersDoneBeforeDestroy ==
    main = "destroyed" => \A k \in Conns : h[k] \in {"none", "done", "failed"}

=============================================================================
