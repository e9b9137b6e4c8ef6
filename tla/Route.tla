------------------------------- MODULE Route -------------------------------
(***************************************************************************)
(* One configured route (MySQLRouting): its accept loops, one per bound    *)
(* listener (TCP and local socket), the per-route active-connection        *)
(* counter, the per-client-IP connect-error counters and blacklist, the    *)
(* pair workers and stop().  The implementation of MySQLRouting is not     *)
(* among the sources under src/; this module follows spec.md sections 4.6  *)
(* and 5, and the scenario of the test bug_24841281 (test_routing.cc),     *)
(* which drives a route through both listeners.                            *)
(*                                                                         *)
(* An accept loop admits a client in two steps, as the spec orders them:   *)
(* it checks the blacklist and active == max_connections, and then         *)
(* increments the atomic counter and spawns the pair worker.  A worker     *)
(* dials the destinations (module Connect gives the outcome of one dial),  *)
(* on failure counts the error against the client IP, on success resets    *)
(* that count and relays until the pair is torn down.                      *)
(***************************************************************************)
EXTENDS Integers, FiniteSets

CONSTANTS
    Clients,           \* client IP addresses
    Listeners,         \* the bound listeners, each with its accept loop
    MaxConnections,    \* max_connections
    MaxConnectErrors,  \* max_connect_errors
    MaxAccepts,        \* bound on the number of accept() calls in a run
    NoClient           \* the peer of a connection not yet accepted

ASSUME RouteAssumption ==
    /\ IsFiniteSet(Clients) /\ IsFiniteSet(Listeners)
    /\ MaxConnections \in Nat \ {0}
    /\ MaxConnectErrors \in Nat \ {0}
    /\ MaxAccepts \in Nat
    /\ NoClient \notin Clients

\* A client connection is known by the number of the accept() that took it.
Conns == 1..MaxAccepts

\* Pair worker states: not spawned, dialing the backend, relaying, exited.
WorkerStates == {"none", "dial", "relay", "exit"}

VARIABLES
    route,    \* "configured", "started", "stopping" or "stopped"
    loop,     \* each accept loop: "accept", "admit" (checked) or "exited"
    pending,  \* the connection an accept loop has checked and not spawned
    active,   \* info_active_routes_, the atomic active-connection counter
    accepts,  \* accept() calls so far
    peer,     \* the client IP of each accepted connection
    worker,   \* the pair worker of each accepted connection
    errors,   \* connect-error counter of each client IP
    blocked   \* blacklisted client IPs

vars == <<route, loop, pending, active, accepts, peer, worker, errors, blocked>>

\* The workers that are alive: spawned and not yet exited.
Live == {c \in Conns : worker[c] \in {"dial", "relay"}}

-----------------------------------------------------------------------------

Init ==
    /\ route = "configured"
    /\ loop = [l \in Listeners |-> "accept"]
    /\ pending = [l \in Listeners |-> 0]
    /\ active = 0
    /\ accepts = 0
    /\ peer = [c \in Conns |-> NoClient]
    /\ worker = [c \in Conns |-> "none"]
    /\ errors = [ip \in Clients |-> 0]
    /\ blocked = {}

\* start(): listeners bound, one accept loop per listener running.
Start ==
    /\ route = "configured"
    /\ route' = "started"
    /\ UNCHANGED <<loop, pending, active, accepts, peer, worker, errors,
                   blocked>>

\* An accept loop accepts a client from ip and checks it (spec 4.6 steps 1
\* and 2): a blacklisted ip, or a route with active == max_connections,
\* gets the rejection packet and its socket is closed; otherwise the loop
\* goes on to admit it.
Accept(l, ip) ==
    /\ route = "started"
    /\ loop[l] = "accept"
    /\ accepts < MaxAccepts
    /\ accepts' = accepts + 1
    /\ peer' = [peer EXCEPT ![accepts + 1] = ip]
    /\ IF ip \in blocked \/ active = MaxConnections
          THEN UNCHANGED <<loop, pending>>
          ELSE /\ loop' = [loop EXCEPT ![l] = "admit"]
               /\ pending' = [pending EXCEPT ![l] = accepts + 1]
    /\ UNCHANGED <<route, active, worker, errors, blocked>>

\* Spec 4.6 step 3: active += 1 and spawn the pair worker.
Admit(l) ==
    /\ loop[l] = "admit"
    /\ active' = active + 1
    /\ worker' = [worker EXCEPT ![pending[l]] = "dial"]
    /\ loop' = [loop EXCEPT ![l] = "accept"]
    /\ UNCHANGED <<route, pending, accepts, peer, errors, blocked>>

\* stop() shut the listener down: accept() fails and the loop returns.
AcceptLoopExit(l) ==
    /\ route = "stopping"
    /\ loop[l] = "accept"
    /\ loop' = [loop EXCEPT ![l] = "exited"]
    /\ UNCHANGED <<route, pending, active, accepts, peer, worker, errors,
                   blocked>>

\* Mutant of DialFailed: active is decremented on the failure path and
\* again by the common exit.
DialFailedDoubleDecrement(c) ==
    /\ worker[c] = "dial"
    /\ errors' = [errors EXCEPT ![peer[c]] = @ + 1]
    /\ blocked' = IF errors[peer[c]] + 1 >= MaxConnectErrors
                     THEN blocked \cup {peer[c]}
                     ELSE blocked
    /\ active' = active - 2
    /\ worker' = [worker EXCEPT ![c] = "exit"]
    /\ UNCHANGED <<route, loop, pending, accepts, peer>>

\* Mutant of DialFailed: the failure path forgets active -= 1.
DialFailedNoDecrement(c) ==
    /\ worker[c] = "dial"
    /\ errors' = [errors EXCEPT ![peer[c]] = @ + 1]
    /\ blocked' = IF errors[peer[c]] + 1 >= MaxConnectErrors
                     THEN blocked \cup {peer[c]}
                     ELSE blocked
    /\ worker' = [worker EXCEPT ![c] = "exit"]
    /\ UNCHANGED <<route, loop, pending, active, accepts, peer>>

\* Every destination refused or timed out (spec 4.6 worker step 2): the
\* client ip's error counter is incremented under the mutex and the ip is
\* blacklisted when it reaches max_connect_errors; the client gets the
\* rejection packet, active -= 1 and the worker exits.
DialFailed(c) ==
    /\ worker[c] = "dial"
    /\ errors' = [errors EXCEPT ![peer[c]] = @ + 1]
    /\ blocked' = IF errors[peer[c]] + 1 >= MaxConnectErrors
                     THEN blocked \cup {peer[c]}
                     ELSE blocked
    /\ active' = active - 1
    /\ worker' = [worker EXCEPT ![c] = "exit"]
    /\ UNCHANGED <<route, loop, pending, accepts, peer>>

\* A destination connected (worker step 3): the ip's error counter is reset
\* to zero and the two relay directions start.
DialSucceeded(c) ==
    /\ worker[c] = "dial"
    /\ errors' = [errors EXCEPT ![peer[c]] = 0]
    /\ worker' = [worker EXCEPT ![c] = "relay"]
    /\ UNCHANGED <<route, loop, pending, active, accepts, peer, blocked>>

\* Mutant of Teardown: stop() does not shut the pair sockets down, so once
\* the route is stopping nothing ends a relay from the router's side.
TeardownIgnoresStop(c) ==
    /\ worker[c] = "relay"
    /\ route # "stopping"
    /\ active' = active - 1
    /\ worker' = [worker EXCEPT ![c] = "exit"]
    /\ UNCHANGED <<route, loop, pending, accepts, peer, errors, blocked>>

\* A relay direction returned non-zero (EOF or an I/O error, including the
\* one stop() causes by shutting the pair's sockets down): both sockets are
\* shut down and closed, active -= 1, the worker exits (worker step 4).
Teardown(c) ==
    /\ worker[c] = "relay"
    /\ active' = active - 1
    /\ worker' = [worker EXCEPT ![c] = "exit"]
    /\ UNCHANGED <<route, loop, pending, accepts, peer, errors, blocked>>

\* stop(): the stop flag is set and the listeners are shut down.
RequestStop ==
    /\ route = "started"
    /\ route' = "stopping"
    /\ UNCHANGED <<loop, pending, active, accepts, peer, worker, errors,
                   blocked>>

\* stop() returns once the accept loops and every pair worker have joined.
StopDone ==
    /\ route = "stopping"
    /\ \A l \in Listeners : loop[l] = "exited"
    /\ Live = {}
    /\ route' = "stopped"
    /\ UNCHANGED <<loop, pending, active, accepts, peer, worker, errors,
                   blocked>>

Next ==
    \/ Start
    \/ \E l \in Listeners, ip \in Clients : Accept(l, ip)
    \/ \E l \in Listeners : Admit(l) \/ AcceptLoopExit(l)
    \/ \E c \in Conns : DialFailed(c) \/ DialSucceeded(c) \/ Teardown(c)
    \/ RequestStop
    \/ StopDone

\* A relay that stop() has shut down ends; a relay may otherwise last as
\* long as its client and backend keep it open.
Interrupt(c) == route = "stopping" /\ Teardown(c)

\* Threads run: an admitting accept loop spawns its worker, a shut-down
\* listener's accept() returns, a dial ends within the connect timeout, a
\* shut-down relay ends, and stop() returns when everyone has joined.
\* Clients connecting and closing, and the call of stop(), are not forced.
Fairness ==
    /\ \A l \in Listeners : WF_vars(Admit(l)) /\ WF_vars(AcceptLoopExit(l))
    /\ \A c \in Conns : WF_vars(DialFailed(c) \/ DialSucceeded(c))
                        /\ WF_vars(Interrupt(c))
    /\ WF_vars(StopDone)

Spec == Init /\ [][Next]_vars /\ Fairness

-----------------------------------------------------------------------------
(* Properties                                                              *)

TypeOK ==
    /\ route \in {"configured", "started", "stopping", "stopped"}
    /\ loop \in [Listeners -> {"accept", "admit", "exited"}]
    /\ pending \in [Listeners -> 0..MaxAccepts]
    /\ active \in 0..MaxAccepts
    /\ accepts \in 0..MaxAccepts
    /\ peer \in [Conns -> Clients \cup {NoClient}]
    /\ worker \in [Conns -> WorkerStates]
    /\ errors \in [Clients -> Nat]
    /\ blocked \subseteq Clients

\* Spec 8.3: every admitted connection increments active exactly once and
\* its pair worker decrements it exactly once, on whichever path it exits
\* (failed dial or torn-down relay): active is the number of live workers.
ActiveCountsWorkers == active = Cardinality(Live)

\* Spec 8.2: once stop() has returned, no accept loop and no pair worker is
\* running and active is 0.
StoppedMeansQuiescent ==
    route = "stopped" =>
        /\ active = 0
        /\ Live = {}
        /\ \A l \in Listeners : loop[l] = "exited"

\* Spec 8.3, step by step: no step moves the counter by more than one; it
\* goes up exactly in the step that spawns a pair worker and down exactly
\* in the step in which a worker exits, whichever path the worker takes.
CounterMoves ==
    /\ active' - active \in {-1, 0, 1}
    /\ (active' = active + 1) <=>
           \E c \in Conns : worker[c] = "none" /\ worker'[c] = "dial"
    /\ (active' = active - 1) <=>
           \E c \in Conns : worker[c] # "exit" /\ worker'[c] = "exit"

CounterStep == [][CounterMoves]_vars

\* stop() returns: once it is called the route reaches "stopped", however
\* many pairs are relaying and whatever the accept loops are doing.
StopCompletes == (route = "stopping") ~> (route = "stopped")

\* The abstract route under the refinement mapping: its state is route,
\* its open connections are those with a live pair worker, and its closed
\* ones those whose worker has exited.
Lifecycle == INSTANCE RouteLifecycle WITH
    Connections <- Conns,
    state       <- route,
    live        <- Live,
    closed      <- {c \in Conns : worker[c] = "exit"}

-----------------------------------------------------------------------------
(* What spec.md states of every run, checked by the run that expects a    *)
(* violation.                                                              *)

\* Spec 8.1: 0 <= active <= max_connections at every observable moment.
ActiveWithinMax == 0 <= active /\ active <= MaxConnections

=============================================================================
