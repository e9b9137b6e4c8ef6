------------------------------ MODULE MCRoute ------------------------------
(* Model-checking instance of Route: the two listeners of the test         *)
(* bug_24841281 (TCP and local socket), two client IPs, room for two       *)
(* connections and a blacklist threshold of two errors, and four accepts:  *)
(* enough for a full route to reject, for an IP to be blacklisted after    *)
(* two failed dials while a third connection of it is in flight, and for   *)
(* stop() to meet relaying pairs and admitting loops.                      *)
EXTENDS Route

CONSTANTS c1, c2, tcp, local, none

MCClients == {c1, c2}

MCListeners == {tcp, local}

MCMaxConnections == 2

MCMaxConnectErrors == 2

MCMaxAccepts == 4

=============================================================================
