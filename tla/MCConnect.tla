----------------------------- MODULE MCConnect -----------------------------
(* Model-checking instance of Connect: two descriptor numbers (enough,     *)
(* since at most one socket is open at a time, and one more exercises the  *)
(* choice of a free one) and addrinfo lists of up to three entries, so     *)
(* that a timeout can be followed by a refusal or by another timeout.      *)
EXTENDS Connect

MCFds == {3, 4}

MCMaxCandidates == 3

=============================================================================
