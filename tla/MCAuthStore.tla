---------------------------- MODULE MCAuthStore ----------------------------
(* Small instance of AuthStore for TLC: see the README for the bounds.      *)
EXTENDS AuthStore, TLC

Symmetry == Permutations(Threads) \cup Permutations(Clients)
=============================================================================
