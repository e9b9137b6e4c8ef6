---------------------------- MODULE RouteProofs ----------------------------
(***************************************************************************)
(* Proofs about one route (module Route) for every set of clients and     *)
(* listeners and every bound.                                              *)
(*                                                                         *)
(* ActiveCountsWorkers is not inductive by itself: an accept loop that has *)
(* checked a connection and is about to increment active must be about to *)
(* spawn a worker that is not yet alive, and two loops must not admit the *)
(* same connection.  IInv adds this, and that a connection not yet        *)
(* accepted has no worker.  A stopped route has no loop left and no live *)
(* worker, and nothing can spawn one.                                      *)
(***************************************************************************)
EXTENDS Route, FiniteSetTheorems, TLAPS

\* The live workers of a worker map w.
LiveOf(w) == {c \in Conns : w[c] \in {"dial", "relay"}}

IInv ==
    /\ TypeOK
    /\ ActiveCountsWorkers
    /\ \A l \in Listeners :
          loop[l] = "admit" => pending[l] \in 1..accepts
                               /\ worker[pending[l]] = "none"
    /\ \A l1, l2 \in Listeners :
          (loop[l1] = "admit" /\ loop[l2] = "admit" /\ l1 # l2)
              => pending[l1] # pending[l2]
    /\ \A c \in Conns : c > accepts => worker[c] = "none"
    /\ \A c \in Conns : c <= accepts => peer[c] \in Clients
    /\ route = "stopped" => Live = {} /\ \A l \in Listeners : loop[l] = "exited"

\* A set of live workers is finite and has at most MaxAccepts elements.
LEMMA LiveBound ==
    ASSUME NEW w \in [Conns -> WorkerStates]
    PROVE  IsFiniteSet(LiveOf(w)) /\ Cardinality(LiveOf(w)) \in 0..MaxAccepts
  <1>1. IsFiniteSet(Conns) /\ Cardinality(Conns) = MaxAccepts
    BY RouteAssumption, FS_Interval DEF Conns
  <1>2. LiveOf(w) \subseteq Conns
    BY DEF LiveOf
  <1>3. IsFiniteSet(LiveOf(w)) /\ Cardinality(LiveOf(w)) <= MaxAccepts
    BY <1>1, <1>2, FS_Subset
  <1>4. QED
    BY <1>3, FS_CardinalityType

\* Spawning the worker of a connection that has none adds one live worker.
LEMMA LiveSpawn ==
    ASSUME NEW w \in [Conns -> WorkerStates], NEW c \in Conns, w[c] = "none"
    PROVE  /\ LiveOf([w EXCEPT ![c] = "dial"]) = LiveOf(w) \cup {c}
           /\ c \notin LiveOf(w)
  BY DEF LiveOf

\* A live worker that exits leaves the set of live workers.
LEMMA LiveExit ==
    ASSUME NEW w \in [Conns -> WorkerStates], NEW c \in Conns,
           w[c] \in {"dial", "relay"}
    PROVE  /\ LiveOf([w EXCEPT ![c] = "exit"]) = LiveOf(w) \ {c}
           /\ c \in LiveOf(w)
  BY DEF LiveOf

LEMMA InitIInv == Init => IInv
  <1> SUFFICES ASSUME Init PROVE IInv
    OBVIOUS
  <1>1. Live = {}
    BY DEF Init, Live
  <1>2. Cardinality(Live) = 0
    BY <1>1, FS_EmptySet
  <1>3. TypeOK
    BY RouteAssumption DEF Init, TypeOK, Conns, WorkerStates
  <1>4. QED
    BY <1>1, <1>2, <1>3 DEF Init, IInv, ActiveCountsWorkers, Conns

LEMMA NextIInv == IInv /\ [Next]_vars => IInv'
  <1> SUFFICES ASSUME IInv, [Next]_vars PROVE IInv'
    OBVIOUS
  <1> USE RouteAssumption
  <1>0. /\ Live = LiveOf(worker) /\ Live' = LiveOf(worker')
        /\ worker \in [Conns -> WorkerStates]
    BY DEF Live, LiveOf, IInv, TypeOK
  <1>1. CASE Start
    BY <1>1 DEF Start, IInv, TypeOK, ActiveCountsWorkers, Live
  <1>2. ASSUME NEW l \in Listeners, NEW ip \in Clients, Accept(l, ip)
        PROVE  IInv'
    <2>1. accepts + 1 \in Conns /\ worker[accepts + 1] = "none"
      BY <1>2 DEF Accept, IInv, TypeOK, Conns
    <2>2. \A k \in Listeners : loop[k] = "admit" => pending[k] # accepts + 1
      BY <1>2 DEF IInv, TypeOK
    <2>3. /\ accepts' \in 0..MaxAccepts
          /\ peer' \in [Conns -> Clients \cup {NoClient}]
          /\ \A c \in Conns : c <= accepts' => peer'[c] \in Clients
          /\ \A c \in Conns : c > accepts' => worker'[c] = "none"
          /\ UNCHANGED <<route, active, worker, errors, blocked>>
          /\ route = "started"
      BY <1>2 DEF Accept, IInv, TypeOK, Conns
    <2>4. Live' = Live
      BY <2>3 DEF Live
    <2>5. CASE ip \in blocked \/ active = MaxConnections
      BY <1>2, <2>3, <2>4, <2>5 DEF Accept, IInv, TypeOK, ActiveCountsWorkers
    <2>6. CASE ~(ip \in blocked \/ active = MaxConnections)
      <3>1. /\ loop' = [loop EXCEPT ![l] = "admit"]
            /\ pending' = [pending EXCEPT ![l] = accepts + 1]
        BY <1>2, <2>6 DEF Accept
      <3>2. /\ loop' \in [Listeners -> {"accept", "admit", "exited"}]
            /\ pending' \in [Listeners -> 0..MaxAccepts]
        BY <2>1, <3>1 DEF IInv, TypeOK, Conns
      <3>3. \A k \in Listeners :
               loop'[k] = "admit" => pending'[k] \in 1..accepts'
                                     /\ worker'[pending'[k]] = "none"
        BY <1>2, <2>1, <2>3, <3>1 DEF Accept, IInv, TypeOK
      <3>4. \A l1, l2 \in Listeners :
               (loop'[l1] = "admit" /\ loop'[l2] = "admit" /\ l1 # l2)
                   => pending'[l1] # pending'[l2]
        BY <2>2, <3>1 DEF IInv, TypeOK
      <3>5. QED
        BY <2>3, <2>4, <3>2, <3>3, <3>4 DEF IInv, TypeOK, ActiveCountsWorkers
    <2>7. QED
      BY <2>5, <2>6
  <1>3. ASSUME NEW l \in Listeners, Admit(l) PROVE IInv'
    <2> DEFINE p == pending[l]
    <2>1. p \in Conns /\ worker[p] = "none"
      BY <1>3 DEF Admit, IInv, TypeOK, Conns
    <2>2. Live' = Live \cup {p} /\ p \notin Live
      BY <1>0, <1>3, <2>1, LiveSpawn DEF Admit
    <2>3. IsFiniteSet(Live)
      BY <1>0, LiveBound
    <2>4. active' = Cardinality(Live')
      BY <1>3, <2>2, <2>3, FS_AddElement DEF Admit, IInv, ActiveCountsWorkers
    <2>5. worker' \in [Conns -> WorkerStates]
      BY <1>0, <1>3, <2>1 DEF Admit, WorkerStates
    <2>6. active' \in 0..MaxAccepts
      BY <1>0, <2>4, <2>5, LiveBound
    <2>7. QED
      BY <1>3, <2>1, <2>4, <2>5, <2>6 DEF Admit, IInv, TypeOK,
         ActiveCountsWorkers
  <1>4. ASSUME NEW l \in Listeners, AcceptLoopExit(l) PROVE IInv'
    BY <1>4 DEF AcceptLoopExit, IInv, TypeOK, ActiveCountsWorkers, Live
  <1>5. ASSUME NEW c \in Conns,
               \/ DialFailed(c)
               \/ Teardown(c)
        PROVE  IInv'
    <2>1. worker[c] \in {"dial", "relay"}
         /\ worker' = [worker EXCEPT ![c] = "exit"]
         /\ active' = active - 1
      BY <1>5 DEF DialFailed, Teardown
    <2>2. Live' = Live \ {c} /\ c \in Live
      BY <1>0, <2>1, LiveExit
    <2>3. IsFiniteSet(Live)
      BY <1>0, LiveBound
    <2>4. active' = Cardinality(Live')
      BY <2>1, <2>2, <2>3, FS_RemoveElement DEF IInv, ActiveCountsWorkers
    <2>5. worker' \in [Conns -> WorkerStates]
      BY <1>0, <2>1 DEF WorkerStates
    <2>6. active' \in 0..MaxAccepts
      BY <1>0, <2>4, <2>5, LiveBound
    <2>7. c <= accepts /\ peer[c] \in Clients
      BY <2>1 DEF IInv, TypeOK, Conns
    <2>8. route # "stopped"
      BY <2>2 DEF IInv
    <2>9. CASE DialFailed(c)
      BY <2>1, <2>4, <2>5, <2>6, <2>7, <2>8, <2>9 DEF DialFailed, IInv,
         TypeOK, ActiveCountsWorkers
    <2>10. CASE Teardown(c)
      BY <2>1, <2>4, <2>5, <2>6, <2>7, <2>8, <2>10 DEF Teardown, IInv,
         TypeOK, ActiveCountsWorkers
    <2>11. QED
      BY <1>5, <2>9, <2>10
  <1>6. ASSUME NEW c \in Conns, DialSucceeded(c) PROVE IInv'
    <2>1. Live' = Live
      BY <1>6 DEF DialSucceeded, Live
    <2>2. c <= accepts /\ peer[c] \in Clients
      BY <1>6 DEF DialSucceeded, IInv, TypeOK, Conns
    <2>3. errors' \in [Clients -> Nat]
      BY <1>6, <2>2 DEF DialSucceeded, IInv, TypeOK
    <2>4. worker' \in [Conns -> WorkerStates]
      BY <1>0, <1>6 DEF DialSucceeded, WorkerStates
    <2>5. QED
      BY <1>6, <2>1, <2>3, <2>4 DEF DialSucceeded, IInv, TypeOK,
         ActiveCountsWorkers
  <1>7. CASE RequestStop
    BY <1>7 DEF RequestStop, IInv, TypeOK, ActiveCountsWorkers, Live
  <1>8. CASE StopDone
    BY <1>8 DEF StopDone, IInv, TypeOK, ActiveCountsWorkers, Live
  <1>9. CASE UNCHANGED vars
    BY <1>9 DEF vars, IInv, TypeOK, ActiveCountsWorkers, Live
  <1>10. QED
    BY <1>1, <1>2, <1>3, <1>4, <1>5, <1>6, <1>7, <1>8, <1>9 DEF Next

\* For every set of clients and listeners and every limit, the route's
\* active counter is the number of pair workers alive (each admitted
\* connection increments it once, its worker decrements it once on
\* whichever path it exits), and a stopped route is quiescent.
THEOREM ActiveCountsWorkersTheorem ==
    Spec => [](TypeOK /\ ActiveCountsWorkers /\ StoppedMeansQuiescent)
  <1>1. IInv => StoppedMeansQuiescent
    BY FS_EmptySet DEF IInv, ActiveCountsWorkers, StoppedMeansQuiescent
  <1>2. QED
    BY InitIInv, NextIInv, <1>1, PTL DEF Spec, IInv

\* The route's variables keep their types in every reachable state.
THEOREM TypeTheorem == Spec => []TypeOK
  BY ActiveCountsWorkersTheorem, PTL

-----------------------------------------------------------------------------
(* The refinement of RouteLifecycle                                        *)

\* The workers that have exited: the abstract closed connections.
Exited == {c \in Conns : worker[c] = "exit"}

\* Before start() no accept loop has checked a client and no worker exists.
LInv ==
    route = "configured" =>
        /\ \A l \in Listeners : loop[l] = "accept"
        /\ \A c \in Conns : worker[c] = "none"

LEMMA InitLInv == Init => LInv
  BY DEF Init, LInv

LEMMA NextLInv == IInv /\ LInv /\ [Next]_vars => LInv'
  <1> SUFFICES ASSUME IInv, LInv, [Next]_vars PROVE LInv'
    OBVIOUS
  <1>1. CASE route = "configured"
    <2>1. ~\E l \in Listeners : Admit(l) \/ AcceptLoopExit(l)
      BY <1>1 DEF LInv, Admit, AcceptLoopExit
    <2>2. ~\E c \in Conns : DialFailed(c) \/ DialSucceeded(c) \/ Teardown(c)
      BY <1>1 DEF LInv, DialFailed, DialSucceeded, Teardown
    <2>3. ~\E l \in Listeners, ip \in Clients : Accept(l, ip)
      BY <1>1 DEF Accept
    <2>4. ~RequestStop /\ ~StopDone
      BY <1>1 DEF RequestStop, StopDone
    <2>5. Start \/ UNCHANGED vars
      BY <2>1, <2>2, <2>3, <2>4 DEF Next
    <2>6. QED
      BY <1>1, <2>5 DEF Start, vars, LInv
  <1>2. CASE route # "configured"
    <2>1. route' # "configured"
      BY <1>2 DEF Next, vars, Start, Accept, Admit, AcceptLoopExit,
         DialFailed, DialSucceeded, Teardown, RequestStop, StopDone
    <2>2. QED
      BY <2>1 DEF LInv
  <1>3. QED
    BY <1>1, <1>2

\* Every step of Route is a step of RouteLifecycle under the mapping, or
\* leaves the mapped state unchanged.
LEMMA NextRefinesLifecycle ==
    IInv /\ LInv /\ [Next]_vars => [Lifecycle!Next]_Lifecycle!vars
  <1> SUFFICES ASSUME IInv, LInv, [Next]_vars
               PROVE  [Lifecycle!Next]_Lifecycle!vars
    OBVIOUS
  <1> USE RouteAssumption
  <1>0. /\ Live = LiveOf(worker) /\ Live' = LiveOf(worker')
        /\ worker \in [Conns -> WorkerStates]
    BY DEF Live, LiveOf, IInv, TypeOK
  <1>1. CASE Start
    BY <1>1 DEF Start, Lifecycle!Next, Lifecycle!Start, Live
  <1>2. ASSUME NEW l \in Listeners, NEW ip \in Clients, Accept(l, ip)
        PROVE  [Lifecycle!Next]_Lifecycle!vars
    BY <1>2 DEF Accept, Lifecycle!vars, Live
  <1>3. ASSUME NEW l \in Listeners, Admit(l)
        PROVE  [Lifecycle!Next]_Lifecycle!vars
    <2> DEFINE p == pending[l]
    <2>1. p \in Conns /\ worker[p] = "none"
      BY <1>3 DEF Admit, IInv, TypeOK, Conns
    <2>2. route \in {"started", "stopping"}
      BY <1>3 DEF Admit, IInv, TypeOK, LInv
    <2>3. Live' = Live \cup {p} /\ p \notin Live
      BY <1>0, <1>3, <2>1, LiveSpawn DEF Admit
    <2>4. p \notin {c \in Conns : worker[c] = "exit"}
      BY <2>1
    <2>5. {c \in Conns : worker'[c] = "exit"} = {c \in Conns : worker[c] = "exit"}
      BY <1>0, <1>3, <2>1 DEF Admit
    <2>6. Lifecycle!Open(p)
      BY <1>3, <2>2, <2>3, <2>4, <2>5 DEF Admit, Lifecycle!Open
    <2>7. QED
      BY <2>1, <2>6 DEF Lifecycle!Next
  <1>4. ASSUME NEW l \in Listeners, AcceptLoopExit(l)
        PROVE  [Lifecycle!Next]_Lifecycle!vars
    BY <1>4 DEF AcceptLoopExit, Lifecycle!vars, Live
  <1>5. ASSUME NEW c \in Conns, DialFailed(c) \/ Teardown(c)
        PROVE  [Lifecycle!Next]_Lifecycle!vars
    <2>1. worker[c] \in {"dial", "relay"}
          /\ worker' = [worker EXCEPT ![c] = "exit"]
          /\ UNCHANGED route
      BY <1>5 DEF DialFailed, Teardown
    <2>2. Live' = Live \ {c} /\ c \in Live
      BY <1>0, <2>1, LiveExit
    <2>3. {d \in Conns : worker'[d] = "exit"}
            = {d \in Conns : worker[d] = "exit"} \cup {c}
      BY <1>0, <2>1
    <2>4. Lifecycle!Close(c)
      BY <2>1, <2>2, <2>3 DEF Lifecycle!Close
    <2>5. QED
      BY <2>4 DEF Lifecycle!Next
  <1>6. ASSUME NEW c \in Conns, DialSucceeded(c)
        PROVE  [Lifecycle!Next]_Lifecycle!vars
    <2>1. Live' = Live
      BY <1>6 DEF DialSucceeded, Live
    <2>2. {d \in Conns : worker'[d] = "exit"} = {d \in Conns : worker[d] = "exit"}
      BY <1>0, <1>6 DEF DialSucceeded
    <2>3. QED
      BY <1>6, <2>1, <2>2 DEF DialSucceeded, Lifecycle!vars
  <1>7. CASE RequestStop
    BY <1>7 DEF RequestStop, Lifecycle!Next, Lifecycle!RequestStop, Live
  <1>8. CASE StopDone
    BY <1>8 DEF StopDone, Lifecycle!Next, Lifecycle!Stopped, Live
  <1>9. CASE UNCHANGED vars
    BY <1>9 DEF vars, Lifecycle!vars, Live
  <1>10. QED
    BY <1>1, <1>2, <1>3, <1>4, <1>5, <1>6, <1>7, <1>8, <1>9 DEF Next

\* A route implements the safety part of its life cycle: under the mapping
\* every behaviour of Route is one of RouteLifecycle, for every set of
\* clients and listeners and every bound.
THEOREM LifecycleTheorem == Spec => Lifecycle!SafeSpec
  <1>1. Init => Lifecycle!Init
    BY DEF Init, Lifecycle!Init, Live
  <1>2. QED
    BY <1>1, InitIInv, NextIInv, InitLInv, NextLInv, NextRefinesLifecycle,
       PTL DEF Spec, Lifecycle!SafeSpec

-----------------------------------------------------------------------------
(* The counter, step by step                                               *)

\* A step that moves no worker to "dial" or "exit" and leaves the counter
\* alone satisfies CounterMoves.
LEMMA QuietStep ==
    ASSUME active \in Int, active' = active,
           \A c \in Conns : worker'[c] = "dial" => worker[c] = "dial",
           \A c \in Conns : worker'[c] = "exit" => worker[c] = "exit"
    PROVE  CounterMoves
  BY DEF CounterMoves

LEMMA StepCounter == IInv /\ [Next]_vars => CounterMoves
  <1> SUFFICES ASSUME IInv, [Next]_vars PROVE CounterMoves
    OBVIOUS
  <1>0. active \in Int /\ worker \in [Conns -> WorkerStates]
    BY DEF IInv, TypeOK
  <1>1. CASE Start \/ RequestStop \/ StopDone \/ UNCHANGED vars
    BY <1>0, <1>1, QuietStep DEF Start, RequestStop, StopDone, vars
  <1>2. ASSUME NEW l \in Listeners, NEW ip \in Clients, Accept(l, ip)
        PROVE  CounterMoves
    BY <1>0, <1>2, QuietStep DEF Accept
  <1>3. ASSUME NEW l \in Listeners, AcceptLoopExit(l) PROVE CounterMoves
    BY <1>0, <1>3, QuietStep DEF AcceptLoopExit
  <1>4. ASSUME NEW l \in Listeners, Admit(l) PROVE CounterMoves
    <2> DEFINE p == pending[l]
    <2>1. p \in Conns /\ worker[p] = "none"
      BY <1>4 DEF Admit, IInv, TypeOK, Conns
    <2>2. worker' = [worker EXCEPT ![p] = "dial"] /\ active' = active + 1
      BY <1>4 DEF Admit
    <2>3. \A c \in Conns : worker'[c] = "exit" => worker[c] = "exit"
      BY <1>0, <2>1, <2>2
    <2>4. QED
      BY <1>0, <2>1, <2>2, <2>3 DEF CounterMoves
  <1>5. ASSUME NEW c \in Conns, DialFailed(c) \/ Teardown(c)
        PROVE  CounterMoves
    <2>1. /\ worker[c] \in {"dial", "relay"}
          /\ worker' = [worker EXCEPT ![c] = "exit"]
          /\ active' = active - 1
      BY <1>5 DEF DialFailed, Teardown
    <2>2. \A d \in Conns : worker'[d] = "dial" => worker[d] = "dial"
      BY <1>0, <2>1
    <2>3. QED
      BY <1>0, <2>1, <2>2 DEF CounterMoves
  <1>6. ASSUME NEW c \in Conns, DialSucceeded(c) PROVE CounterMoves
    <2>1. /\ worker[c] = "dial"
          /\ worker' = [worker EXCEPT ![c] = "relay"]
          /\ active' = active
      BY <1>6 DEF DialSucceeded
    <2>2. QED
      BY <1>0, <2>1, QuietStep
  <1>7. QED
    BY <1>1, <1>2, <1>3, <1>4, <1>5, <1>6 DEF Next

\* In every step of a route, for every bound, the counter moves by at most
\* one: up exactly when a pair worker is spawned, down exactly when one
\* exits.
THEOREM CounterStepTheorem == Spec => CounterStep
  <1>1. IInv /\ [Next]_vars => [CounterMoves]_vars
    BY StepCounter
  <1>2. QED
    BY <1>1, InitIInv, NextIInv, PTL DEF Spec, CounterStep

=============================================================================
