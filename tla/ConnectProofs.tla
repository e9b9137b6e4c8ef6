--------------------------- MODULE ConnectProofs ---------------------------
(***************************************************************************)
(* Proofs about get_mysql_socket (module Connect) for every set of         *)
(* descriptor numbers and every length of the addrinfo list.               *)
(*                                                                         *)
(* NoFdLeak is not inductive: it only speaks of the final state.  IInv     *)
(* adds what holds at every statement of the procedure: at the loop head   *)
(* no socket of this call is open, and between socket() and the end of the *)
(* candidate exactly the current sock is.  For the timeout flag it adds    *)
(* that timeout_expired is set only once some candidate timed out, and     *)
(* that ret keeps its initial value until the call returns; with these the *)
(* refinement of DialContract follows step by step.                        *)
(***************************************************************************)
EXTENDS Connect, TLAPS

\* The statements between socket() and the end of a candidate.
HoldsSock == {"connect", "wait", "status", "good"}

\* The inductive strengthening of TypeOK /\ NoFdLeak.
IInv ==
    /\ TypeOK
    /\ pc = "resolve" => info = 1 /\ elapsed = 0
    /\ pc # "resolve" => info <= ncand + 1 \/ pc = "done"
    /\ elapsed <= info - 1
    /\ pc \in {"resolve", "loop"} => open = {}
    /\ pc \in HoldsSock => sock \in Fds /\ open = {sock} /\ info <= ncand
    /\ NoFdLeak

\* The O_NONBLOCK flags always form a function on Fds.
LEMMA SetSocketBlockingType ==
    ASSUME NEW fd \in Fds, NEW b \in BOOLEAN,
           nonblock \in [Fds -> BOOLEAN],
           nonblock' = [nonblock EXCEPT ![fd] = ~b]
    PROVE  nonblock' \in [Fds -> BOOLEAN] /\ nonblock'[fd] = ~b
  OBVIOUS

\* Appending an outcome records a timeout exactly when it is one or one
\* was recorded before.
LEMMA AppendTimedOut ==
    ASSUME NEW s \in Seq(Outcomes), NEW o \in Outcomes
    PROVE  HasTimedOut(Append(s, o)) <=> HasTimedOut(s) \/ o = "timeout"
  BY DEF HasTimedOut

\* Appending an outcome other than a timeout records none.
LEMMA AppendNoTimeout ==
    ASSUME NEW s \in Seq(Outcomes), NEW o \in Outcomes \ {"timeout"}
    PROVE  HasTimedOut(Append(s, o)) = HasTimedOut(s)
  <1>1. HasTimedOut(Append(s, o)) <=> HasTimedOut(s)
    BY AppendTimedOut
  <1>2. QED
    BY <1>1 DEF HasTimedOut

LEMMA InitIInv == Init => IInv
  <1> SUFFICES ASSUME Init PROVE IInv
    OBVIOUS
  <1>1. tried \in Seq(Outcomes)
    BY DEF Init
  <1>2. nonblock \in [Fds -> BOOLEAN]
    BY DEF Init
  <1>3. info \in 1..(MaxCandidates + 1) /\ ncand \in 0..MaxCandidates
        /\ elapsed \in 0..MaxCandidates
    BY MaxCandidatesAssumption DEF Init
  <1>4. TypeOK
    BY <1>1, <1>2, <1>3 DEF Init, TypeOK, Labels, Errnos, kInvalidSocket
  <1>5. QED
    BY <1>4 DEF Init, IInv, NoFdLeak, HoldsSock

LEMMA NextIInv == IInv /\ [Next]_vars => IInv'
  <1> SUFFICES ASSUME IInv, [Next]_vars PROVE IInv'
    OBVIOUS
  <1> USE FdsAssumption, MaxCandidatesAssumption
  <1>1. CASE GetAddrInfo
    BY <1>1 DEF GetAddrInfo, IInv, TypeOK, NoFdLeak, Labels, HoldsSock
  <1>2. CASE OpenSocket
    <2>1. CASE /\ sock' = -1
               /\ errno' = "EMFILE"
               /\ info' = info + 1
               /\ tried' = Append(tried, "nosocket")
               /\ UNCHANGED <<pc, open, nonblock>>
      BY <1>2, <2>1 DEF OpenSocket, IInv, TypeOK, NoFdLeak, Labels,
         HoldsSock, Outcomes, Errnos, kInvalidSocket
    <2>2. CASE \E fd \in Fds \ open :
                 /\ sock' = fd
                 /\ open' = open \cup {fd}
                 /\ nonblock' = [nonblock EXCEPT ![fd] = TRUE]
                 /\ pc' = "connect"
                 /\ UNCHANGED <<errno, info, tried>>
      BY <1>2, <2>2 DEF OpenSocket, IInv, TypeOK, NoFdLeak, Labels, HoldsSock
    <2>3. QED
      BY <1>2, <2>1, <2>2 DEF OpenSocket
  <1>3. CASE Connect
    <2>1. CASE errno' = "ECONNREFUSED" /\ CloseAndTryNext("refused")
      BY <1>3, <2>1 DEF Connect, CloseAndTryNext, IInv, TypeOK, NoFdLeak,
         Labels, HoldsSock, Outcomes, Errnos
    <2>2. CASE ~(errno' = "ECONNREFUSED" /\ CloseAndTryNext("refused"))
      BY <1>3, <2>2 DEF Connect, IInv, TypeOK, NoFdLeak, Labels, HoldsSock,
         Errnos
    <2>3. QED
      BY <2>1, <2>2
  <1>4. CASE Wait
    <2>1. pc = "wait" /\ sock \in Fds /\ open = {sock} /\ info <= ncand
      BY <1>4 DEF Wait, IInv, HoldsSock
    <2>2. ASSUME NEW o \in Outcomes, CloseAndTryNext(o),
                 NEW e \in Errnos, errno' = e,
                 elapsed' \in {elapsed, elapsed + 1},
                 timeout_expired' \in BOOLEAN,
                 UNCHANGED <<ncand, sock, nonblock, ret>>
          PROVE  IInv'
      BY <2>1, <2>2 DEF CloseAndTryNext, IInv, TypeOK, NoFdLeak, Labels,
         HoldsSock
    <2>3. CASE pc' = "status"
               /\ UNCHANGED <<errno, timeout_expired, elapsed, open, info,
                              tried, ncand, sock, nonblock, ret>>
      BY <2>1, <2>3 DEF IInv, TypeOK, NoFdLeak, Labels, HoldsSock
    <2>4. QED
      BY <1>4, <2>2, <2>3 DEF Wait, WaitFailed, Outcomes, Errnos
  <1>5. CASE Status
    <2>1. pc = "status" /\ sock \in Fds /\ open = {sock} /\ info <= ncand
      BY <1>5 DEF Status, IInv, HoldsSock
    <2>2. CASE CloseAndTryNext("soerror")
      BY <1>5, <2>1, <2>2 DEF Status, CloseAndTryNext, IInv, TypeOK,
         NoFdLeak, Labels, HoldsSock, Outcomes
    <2>3. CASE pc' = "good" /\ UNCHANGED <<open, info, tried>>
      BY <1>5, <2>1, <2>3 DEF Status, IInv, TypeOK, NoFdLeak, Labels,
         HoldsSock
    <2>4. QED
      BY <1>5, <2>2, <2>3 DEF Status
  <1>6. CASE AllFailed
    BY <1>6 DEF AllFailed, IInv, TypeOK, NoFdLeak, Labels, HoldsSock
  <1>7. CASE Connected
    <2>1. sock \in Fds /\ open = {sock}
      BY <1>7 DEF Connected, IInv, HoldsSock
    <2>2. nonblock' \in [Fds -> BOOLEAN] /\ nonblock'[sock] = FALSE
      BY <1>7, <2>1, SetSocketBlockingType DEF Connected, SetSocketBlocking,
         IInv, TypeOK
    <2>3. QED
      BY <1>7, <2>1, <2>2 DEF Connected, IInv, TypeOK, NoFdLeak, Labels,
         HoldsSock, Outcomes
  <1>8. CASE UNCHANGED vars
    BY <1>8 DEF vars, IInv, TypeOK, NoFdLeak, HoldsSock
  <1>9. QED
    BY <1>1, <1>2, <1>3, <1>4, <1>5, <1>6, <1>7, <1>8 DEF Next

\* get_mysql_socket is type-correct and leaks no descriptor: on return the
\* only socket it opened that is still open is the returned, blocking one.
THEOREM NoFdLeakTheorem == Spec => [](TypeOK /\ NoFdLeak)
  <1>1. IInv => TypeOK /\ NoFdLeak
    BY DEF IInv
  <1>2. QED
    BY InitIInv, NextIInv, <1>1, PTL DEF Spec

\* get_mysql_socket's variables keep their types in every reachable state.
THEOREM TypeTheorem == Spec => []TypeOK
  BY NoFdLeakTheorem, PTL

-----------------------------------------------------------------------------
(* The timeout flag and the refinement of DialContract                      *)

\* What the result -2 rests on: timeout_expired is set only after a
\* timeout, and ret keeps its initial value until the call returns.
TInv ==
    /\ timeout_expired => HasTimedOut(tried)
    /\ pc # "done" => ret = kInvalidSocket
    /\ TimeoutOnlyAfterTimeout

LEMMA InitTInv == Init => TInv
  BY DEF Init, TInv, HasTimedOut, TimeoutOnlyAfterTimeout

\* A step of Connect appends at most one outcome to tried.
LEMMA TriedGrows ==
    ASSUME IInv, [Next]_vars
    PROVE  \/ tried' = tried
           \/ \E o \in Outcomes : tried' = Append(tried, o)
  BY DEF Next, vars, GetAddrInfo, OpenSocket, Connect, Wait, WaitFailed,
     Status, AllFailed, Connected, CloseAndTryNext, Outcomes

LEMMA NextTInv == IInv /\ TInv /\ [Next]_vars => TInv'
  <1> SUFFICES ASSUME IInv, TInv, [Next]_vars PROVE TInv'
    OBVIOUS
  <1>1. tried \in Seq(Outcomes)
    BY DEF IInv, TypeOK
  <1>2. HasTimedOut(tried) => HasTimedOut(tried')
    BY <1>1, TriedGrows, AppendTimedOut
  <1>3. CASE GetAddrInfo
    BY <1>2, <1>3 DEF GetAddrInfo, TInv, TimeoutOnlyAfterTimeout
  <1>4. CASE OpenSocket
    BY <1>2, <1>4 DEF OpenSocket, TInv, TimeoutOnlyAfterTimeout
  <1>5. CASE Connect
    BY <1>2, <1>5 DEF Connect, CloseAndTryNext, TInv, TimeoutOnlyAfterTimeout
  <1>6. CASE Wait
    <2>1. CASE WaitFailed("ETIMEDOUT", "timeout")
      <3>1. HasTimedOut(tried')
        BY <1>1, <2>1, AppendTimedOut DEF WaitFailed, CloseAndTryNext, Outcomes
      <3>2. QED
        BY <1>6, <2>1, <3>1 DEF Wait, WaitFailed, CloseAndTryNext, TInv,
           TimeoutOnlyAfterTimeout
    <2>2. CASE \/ WaitFailed("EINTR", "pollerror")
               \/ WaitFailed("EINVAL", "notwritable")
      <3>1. ~timeout_expired' /\ pc' = "loop"
        BY <2>2 DEF WaitFailed, CloseAndTryNext
      <3>2. QED
        BY <1>6, <3>1 DEF Wait, TInv, TimeoutOnlyAfterTimeout
    <2>3. CASE pc' = "status" /\ UNCHANGED <<timeout_expired, tried>>
      BY <1>6, <2>3 DEF Wait, TInv, TimeoutOnlyAfterTimeout
    <2>4. QED
      BY <1>6, <2>1, <2>2, <2>3 DEF Wait
  <1>7. CASE Status
    BY <1>2, <1>7 DEF Status, CloseAndTryNext, TInv, TimeoutOnlyAfterTimeout
  <1>8. CASE AllFailed
    BY <1>8 DEF AllFailed, TInv, TimeoutOnlyAfterTimeout
  <1>9. CASE Connected
    <2>1. sock \in Fds
      BY <1>9 DEF Connected, IInv, HoldsSock
    <2>2. ret' # -2 /\ UNCHANGED timeout_expired
      BY <1>9, <2>1, FdsAssumption DEF Connected
    <2>3. QED
      BY <1>2, <1>9, <2>2 DEF Connected, TInv, TimeoutOnlyAfterTimeout
  <1>10. CASE UNCHANGED vars
    BY <1>10 DEF vars, TInv, TimeoutOnlyAfterTimeout
  <1>11. QED
    BY <1>3, <1>4, <1>5, <1>6, <1>7, <1>8, <1>9, <1>10 DEF Next

\* get_mysql_socket returns -2 only after one of its candidates' poll()
\* timed out, whatever the candidates and the descriptors.
THEOREM TimeoutOnlyAfterTimeoutTheorem == Spec => []TimeoutOnlyAfterTimeout
  <1>1. IInv /\ TInv => TimeoutOnlyAfterTimeout
    BY DEF TInv
  <1>2. QED
    BY InitIInv, NextIInv, InitTInv, NextTInv, <1>1, PTL DEF Spec

\* Every step of Connect is a step of DialContract under the mapping, or
\* leaves the mapped state unchanged.
LEMMA NextRefines ==
    IInv /\ TInv /\ [Next]_vars => [Contract!Next]_Contract!vars
  <1> SUFFICES ASSUME IInv, TInv, [Next]_vars
               PROVE  [Contract!Next]_Contract!vars
    OBVIOUS
  <1>1. tried \in Seq(Outcomes)
    BY DEF IInv, TypeOK
  <1>2. CASE GetAddrInfo
    BY <1>2 DEF GetAddrInfo, TInv, IInv, Contract!Next, Contract!Return,
       Contract!vars, kInvalidSocket
  <1>3. CASE OpenSocket
    <2>1. HasTimedOut(tried') = HasTimedOut(tried)
      <3>1. CASE tried' = Append(tried, "nosocket")
        BY <1>1, <3>1, AppendNoTimeout DEF Outcomes
      <3>2. CASE tried' = tried
        BY <3>2
      <3>3. QED
        BY <1>3, <3>1, <3>2 DEF OpenSocket
    <2>2. QED
      BY <1>3, <2>1 DEF OpenSocket, Contract!vars
  <1>4. CASE Connect
    <2>1. HasTimedOut(tried') = HasTimedOut(tried)
      <3>1. CASE tried' = Append(tried, "refused")
        BY <1>1, <3>1, AppendNoTimeout DEF Outcomes
      <3>2. CASE tried' = tried
        BY <3>2
      <3>3. QED
        BY <1>4, <3>1, <3>2 DEF Connect, CloseAndTryNext
    <2>2. QED
      BY <1>4, <2>1 DEF Connect, CloseAndTryNext, Contract!vars
  <1>5. CASE Wait
    <2>1. CASE WaitFailed("ETIMEDOUT", "timeout")
      <3>1. HasTimedOut(tried')
        BY <1>1, <2>1, AppendTimedOut DEF WaitFailed, CloseAndTryNext, Outcomes
      <3>2. QED
        BY <1>5, <2>1, <3>1 DEF Wait, WaitFailed, CloseAndTryNext,
           Contract!Next, Contract!TimeOut
    <2>2. CASE ~WaitFailed("ETIMEDOUT", "timeout")
      <3>1. HasTimedOut(tried') = HasTimedOut(tried)
        <4>1. \/ tried' = tried
              \/ tried' = Append(tried, "pollerror")
              \/ tried' = Append(tried, "notwritable")
          BY <1>5, <2>2 DEF Wait, WaitFailed, CloseAndTryNext
        <4>2. CASE tried' = Append(tried, "pollerror")
          BY <1>1, <4>2, AppendNoTimeout DEF Outcomes
        <4>3. CASE tried' = Append(tried, "notwritable")
          BY <1>1, <4>3, AppendNoTimeout DEF Outcomes
        <4>4. QED
          BY <4>1, <4>2, <4>3
      <3>2. QED
        BY <1>5, <2>2, <3>1 DEF Wait, WaitFailed, CloseAndTryNext,
           Contract!vars
    <2>3. QED
      BY <2>1, <2>2
  <1>6. CASE Status
    <2>1. HasTimedOut(tried') = HasTimedOut(tried)
      <3>1. tried' = tried \/ tried' = Append(tried, "soerror")
        BY <1>6 DEF Status, CloseAndTryNext
      <3>2. CASE tried' = Append(tried, "soerror")
        BY <1>1, <3>2, AppendNoTimeout DEF Outcomes
      <3>3. QED
        BY <3>1, <3>2
    <2>2. QED
      BY <1>6, <2>1 DEF Status, CloseAndTryNext, Contract!vars
  <1>7. CASE AllFailed
    BY <1>7 DEF AllFailed, IInv, TInv, Contract!Next, Contract!Return
  <1>8. CASE Connected
    <2>1. sock \in Fds /\ open = {sock}
      BY <1>8 DEF Connected, IInv, HoldsSock
    <2>2. HasTimedOut(tried') = HasTimedOut(tried)
      <3>1. tried' = Append(tried, "connected")
        BY <1>8 DEF Connected
      <3>2. QED
        BY <1>1, <3>1, AppendNoTimeout DEF Outcomes
    <2>3. QED
      BY <1>8, <2>1, <2>2 DEF Connected, Contract!Next, Contract!Return
  <1>9. CASE UNCHANGED vars
    BY <1>9 DEF vars, Contract!vars
  <1>10. QED
    BY <1>2, <1>3, <1>4, <1>5, <1>6, <1>7, <1>8, <1>9 DEF Next

\* get_mysql_socket implements the safety part of its contract: under the
\* refinement mapping every behaviour of Connect is one of DialContract.
THEOREM RefinementTheorem == Spec => Contract!SafeSpec
  <1>1. Init => Contract!Init
    BY DEF Init, Contract!Init, HasTimedOut, kInvalidSocket
  <1>2. QED
    BY <1>1, InitIInv, NextIInv, InitTInv, NextTInv, NextRefines, PTL
       DEF Spec, Contract!SafeSpec

-----------------------------------------------------------------------------
(* The time a dial waits                                                   *)

\* The candidate index never passes the end of the addrinfo list by more
\* than one: it advances only from a candidate of the list.
WInv == info <= ncand + 1

LEMMA InitWInv == Init => WInv
  BY DEF Init, WInv

LEMMA NextWInv == IInv /\ WInv /\ [Next]_vars => WInv'
  <1> SUFFICES ASSUME IInv, WInv, [Next]_vars PROVE WInv'
    OBVIOUS
  <1> USE MaxCandidatesAssumption
  <1>1. pc \in HoldsSock => info <= ncand
    BY DEF IInv
  <1>2. CASE GetAddrInfo
    BY <1>2 DEF GetAddrInfo, IInv, WInv
  <1>3. CASE OpenSocket
    BY <1>3 DEF OpenSocket, IInv, TypeOK, WInv
  <1>4. CASE Connect
    BY <1>1, <1>4 DEF Connect, CloseAndTryNext, IInv, TypeOK, WInv, HoldsSock
  <1>5. CASE Wait
    BY <1>1, <1>5 DEF Wait, WaitFailed, CloseAndTryNext, IInv, TypeOK, WInv,
       HoldsSock
  <1>6. CASE Status
    BY <1>1, <1>6 DEF Status, CloseAndTryNext, IInv, TypeOK, WInv, HoldsSock
  <1>7. CASE AllFailed \/ Connected \/ UNCHANGED vars
    BY <1>7 DEF AllFailed, Connected, vars, WInv
  <1>8. QED
    BY <1>2, <1>3, <1>4, <1>5, <1>6, <1>7 DEF Next

\* Whatever the descriptors and the addrinfo list, get_mysql_socket spends
\* at most one connect timeout in poll() per address of the list: elapsed
\* counts the candidates before info, and info stays within one of the end.
THEOREM WaitBoundedTheorem == Spec => []WaitBounded
  <1>1. IInv /\ WInv => WaitBounded
    BY DEF IInv, TypeOK, WInv, WaitBounded
  <1>2. QED
    BY InitIInv, NextIInv, InitWInv, NextWInv, <1>1, PTL DEF Spec

=============================================================================
