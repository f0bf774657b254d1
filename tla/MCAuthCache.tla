---------------------------- MODULE MCAuthCache -----------------------------
(* One worker's cache with room for one of two tokens, and two requests that *)
(* may both be for one of them. *)
EXTENDS AuthCache, TLC

CONSTANTS t1, t2, r1, r2

TokenSymmetry == Permutations(Tokens) \cup Permutations(Requests)
=============================================================================
