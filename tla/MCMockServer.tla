---------------------------- MODULE MCMockServer ----------------------------
(* Model-checking instance of MockServer: three connections from the       *)
(* router and stop_after_n_accepts(2), so that the runloop may return by   *)
(* itself with a connection still queued, or be stopped blocked in         *)
(* accept(); two new_client threads suffice for a lost update.             *)
EXTENDS MockServer

MCNClients == 3

MCMaxExpected == 2

=============================================================================
