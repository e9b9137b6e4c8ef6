------------------------- MODULE MockServerProofs -------------------------
(***************************************************************************)
(* Proofs about MockServer for every number of connections and every      *)
(* stop_after_n_accepts() argument.                                        *)
(*                                                                         *)
(* JoinedOnce rests on how the two stop() calls meet the flag stop_: it is *)
(* false until the first call sets it, that call runs to the join, and the *)
(* second call finds it set.  IInv states that per statement of the test   *)
(* thread, together with the bound numAccepts + backlog <= dialed that     *)
(* keeps the accept index inside Conns.                                    *)
(***************************************************************************)
EXTENDS MockServer, TLAPS

\* The inductive strengthening of TypeOK /\ JoinedOnce.
IInv ==
    /\ TypeOK
    /\ numAccepts + backlog <= dialed
    /\ main \in {"constructed", "running"} => calls = 0 /\ joins = 0 /\ ~stop_
    /\ main \in {"shutdown", "close", "join"} => calls = 1 /\ joins = 0 /\ stop_
    /\ main = "stop" => \/ calls = 1 /\ joins = 0 /\ ~stop_
                        \/ calls = 2 /\ joins = 1 /\ stop_
    /\ main = "destroyed" => joins = 1
    /\ main = "constructed" => rl = "none"


\* The part of IInv about the test thread, which only its own steps change.
MainInv ==
    /\ main \in {"constructed", "running"} => calls = 0 /\ joins = 0 /\ ~stop_
    /\ main \in {"shutdown", "close", "join"} => calls = 1 /\ joins = 0 /\ stop_
    /\ main = "stop" => \/ calls = 1 /\ joins = 0 /\ ~stop_
                        \/ calls = 2 /\ joins = 1 /\ stop_
    /\ main = "destroyed" => joins = 1

LEMMA IInvSplit == IInv <=> TypeOK /\ numAccepts + backlog <= dialed /\ MainInv
                           /\ (main = "constructed" => rl = "none")
  BY DEF IInv, MainInv

LEMMA InitIInv == Init => IInv
  <1> SUFFICES ASSUME Init PROVE IInv
    OBVIOUS
  <1> USE MockServerAssumption
  <1>1. h \in [Conns -> HandlerStates] /\ tmp \in [Conns -> Int]
        /\ bye \in [Conns -> BOOLEAN]
    BY DEF Init, HandlerStates
  <1>2. numAccepts \in 0..NClients /\ backlog \in 0..NClients
        /\ dialed \in 0..NClients /\ calls \in 0..2 /\ joins \in Nat
        /\ maxExp \in {0, MaxExpected} /\ numConns \in Int
    BY DEF Init
  <1>3. main \in MainStates /\ rl \in {"none", "check", "accept", "exited"}
        /\ stop_ \in BOOLEAN /\ shut \in BOOLEAN /\ closed \in BOOLEAN
    BY DEF Init, MainStates
  <1>4. TypeOK
    BY <1>1, <1>2, <1>3 DEF TypeOK
  <1>5. QED
    BY <1>4 DEF Init, IInv

LEMMA NextIInv == IInv /\ [Next]_vars => IInv'
  <1> SUFFICES ASSUME IInv, [Next]_vars PROVE IInv'
    OBVIOUS
  <1> USE MockServerAssumption
  <1>0. TypeOK /\ numAccepts + backlog <= dialed
    BY DEF IInv
  \* Steps of the other threads leave the test thread's variables alone.
  <1>1. ASSUME UNCHANGED <<main, calls, stop_, joins>>,
               TypeOK', numAccepts' + backlog' <= dialed',
               main = "constructed" => rl' = "none"
        PROVE  IInv'
    BY <1>1 DEF IInv
  <1>2. CASE Start
    BY <1>0, <1>2 DEF Start, IInv, TypeOK, MainStates
  <1>3. CASE StopAfterNAccepts
    BY <1>0, <1>3, <1>1 DEF StopAfterNAccepts, TypeOK, IInv
  <1>4. CASE Dial
    BY <1>0, <1>4, <1>1 DEF Dial, TypeOK, IInv
  <1>5. CASE \E k \in Conns : Bye(k)
    BY <1>0, <1>5, <1>1 DEF Bye, TypeOK, IInv
  <1>6. CASE RunloopCheck
    BY <1>0, <1>6, <1>1 DEF RunloopCheck, TypeOK, IInv
  <1>7. CASE RunloopAccept
    <2>1. CASE backlog > 0 /\ ~shut /\ ~closed
               /\ backlog' = backlog - 1
               /\ numAccepts' = numAccepts + 1
               /\ h' = [h EXCEPT ![numAccepts + 1] = "inc_load"]
      <3>1. numAccepts + 1 \in Conns
        BY <1>0, <2>1 DEF TypeOK, Conns
      <3>2. QED
        BY <1>0, <1>7, <2>1, <3>1, <1>1 DEF RunloopAccept, TypeOK,
           HandlerStates, Conns, IInv
    <2>2. CASE shut /\ UNCHANGED <<backlog, numAccepts, h>>
      BY <1>0, <1>7, <2>2, <1>1 DEF RunloopAccept, TypeOK, IInv
    <2>3. QED
      BY <1>7, <2>1, <2>2 DEF RunloopAccept
  <1>8. ASSUME NEW k \in Conns, Handler(k) PROVE IInv'
    BY <1>0, <1>8, <1>1 DEF Handler, IncLoad, IncStore, Read, DecLoad, DecStore,
       TypeOK, HandlerStates, IInv
  <1>9. CASE BeginStop
    BY <1>0, <1>9 DEF BeginStop, IInv, TypeOK, MainStates
  <1>10. CASE StopCheck
    <2>1. CASE ~stop_
      BY <1>0, <1>10, <2>1 DEF StopCheck, IInv, TypeOK, MainStates
    <2>2. CASE stop_
      BY <1>0, <1>10, <2>2 DEF StopCheck, StopReturn, IInv, TypeOK, MainStates
    <2>3. QED
      BY <2>1, <2>2
  <1>11. CASE Shutdown
    BY <1>0, <1>11 DEF Shutdown, IInv, TypeOK, MainStates
  <1>12. CASE Close
    BY <1>0, <1>12 DEF Close, IInv, TypeOK, MainStates
  <1>13. CASE Join
    BY <1>0, <1>13 DEF Join, StopReturn, IInv, TypeOK, MainStates
  <1>14. CASE UNCHANGED vars
    BY <1>14 DEF vars, IInv, TypeOK
  <1>15. QED
    BY <1>2, <1>3, <1>4, <1>5, <1>6, <1>7, <1>8, <1>9, <1>10, <1>11, <1>12,
       <1>13, <1>14 DEF Next

\* The runloop thread is joined exactly once over server.stop() and the
\* destructor's stop(), for every number of connections and every limit.
THEOREM JoinedOnceTheorem == Spec => [](TypeOK /\ JoinedOnce)
  <1>1. IInv => TypeOK /\ JoinedOnce
    BY DEF IInv, JoinedOnce, TypeOK, MainStates
  <1>2. QED
    BY InitIInv, NextIInv, <1>1, PTL DEF Spec

=============================================================================
