------------------------- MODULE MCLoginRateLimiter -------------------------
(* Small instances of LoginRateLimiter.                                     *)
EXTENDS LoginRateLimiter, TLC

Symmetric == Permutations(Ips) \cup Permutations(Submissions)
=============================================================================
