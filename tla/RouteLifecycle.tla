--------------------------- MODULE RouteLifecycle ---------------------------
(***************************************************************************)
(* What a user of a route relies on (spec.md 4.6): its life cycle          *)
(* Configured -> Started -> Stopping -> Stopped, and the client            *)
(* connections it serves, with the accept loops, the admission checks,    *)
(* the counters and the dials left out.                                    *)
(*                                                                         *)
(* A connection is opened only while the route runs (started, or stopping *)
(* with an admission already under way), at most once, and is closed once.*)
(* stop() returns only when no connection is open, and then none opens.   *)
(* Once stop() has been called every open connection is closed.  The      *)
(* module Route implements this specification under the refinement        *)
(* mapping given there.                                                    *)
(***************************************************************************)
CONSTANT Connections    \* the client connections a run may accept

VARIABLES
    state,      \* "configured", "started", "stopping" or "stopped"
    live,       \* the connections open and served
    closed      \* the connections served and closed

vars == <<state, live, closed>>

Init ==
    /\ state = "configured"
    /\ live = {}
    /\ closed = {}

Start ==
    /\ state = "configured"
    /\ state' = "started"
    /\ UNCHANGED <<live, closed>>

\* A connection is admitted and served.
Open(c) ==
    /\ state \in {"started", "stopping"}
    /\ c \notin live \cup closed
    /\ live' = live \cup {c}
    /\ UNCHANGED <<state, closed>>

\* A served connection ends (its backend failed, a side closed, or stop()).
Close(c) ==
    /\ c \in live
    /\ live' = live \ {c}
    /\ closed' = closed \cup {c}
    /\ UNCHANGED state

RequestStop ==
    /\ state = "started"
    /\ state' = "stopping"
    /\ UNCHANGED <<live, closed>>

\* stop() returns once no connection is served.
Stopped ==
    /\ state = "stopping"
    /\ live = {}
    /\ state' = "stopped"
    /\ UNCHANGED <<live, closed>>

Next ==
    \/ Start
    \/ \E c \in Connections : Open(c) \/ Close(c)
    \/ RequestStop
    \/ Stopped

\* The safety part alone, which the refinement proof establishes.
SafeSpec == Init /\ [][Next]_vars

\* Once stop() is called, every served connection is closed and stop()
\* returns.
Spec ==
    /\ SafeSpec
    /\ \A c \in Connections : WF_vars(state = "stopping" /\ Close(c))
    /\ WF_vars(Stopped)

=============================================================================
