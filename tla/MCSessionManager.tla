-------------------------- MODULE MCSessionManager --------------------------
(* Small instances of SessionManager: sessions and requests are symmetric.  *)
EXTENDS SessionManager, TLC

Symmetric == Permutations(SessionIds) \cup Permutations(Requests)
=============================================================================
