-------------------------------- MODULE MCAuth --------------------------------
(* Auth for TLC: requests and sessions are interchangeable. *)
EXTENDS Auth, TLC

Symm == Permutations(Requests) \cup Permutations(Sessions)

===============================================================================
