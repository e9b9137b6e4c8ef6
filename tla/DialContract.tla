---------------------------- MODULE DialContract ----------------------------
(***************************************************************************)
(* What a caller of SocketOperations::get_mysql_socket (part_000) relies   *)
(* on, with the candidates, the sockets tried and the errno left out.      *)
(*                                                                         *)
(* A dial is idle until it returns once.  While it runs, attempts may time *)
(* out.  It returns either a descriptor, which is then the only one it     *)
(* holds, or -1 or -2, holding nothing; -2 ("timed out") only after some   *)
(* attempt timed out.  The module Connect implements this specification    *)
(* under the refinement mapping given there.                               *)
(***************************************************************************)
EXTENDS Integers

CONSTANT Fds        \* the descriptor numbers a dial may return

VARIABLES
    dial,           \* "idle" while the call runs, "done" once it returned
    result,         \* what it returned (meaningful once done)
    held,           \* the descriptors it leaves open to the caller
    timedOut        \* whether an attempt of the call has timed out

vars == <<dial, result, held, timedOut>>

Init ==
    /\ dial = "idle"
    /\ result = -1
    /\ held = {}
    /\ timedOut = FALSE

\* An attempt of the running call times out.
TimeOut ==
    /\ dial = "idle"
    /\ timedOut' = TRUE
    /\ UNCHANGED <<dial, result, held>>

\* The call returns a connected descriptor, which it hands over, or fails.
Return ==
    /\ dial = "idle"
    /\ \/ \E fd \in Fds : result' = fd /\ held' = {fd}
       \/ result' = -1 /\ held' = {}
       \/ timedOut /\ result' = -2 /\ held' = {}
    /\ dial' = "done"
    /\ UNCHANGED timedOut

Next == TimeOut \/ Return

\* The safety part alone, which the refinement proof establishes.
SafeSpec == Init /\ [][Next]_vars

\* The call returns.
Spec == SafeSpec /\ WF_vars(Return)

=============================================================================
