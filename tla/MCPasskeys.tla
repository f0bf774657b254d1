----------------------------- MODULE MCPasskeys -----------------------------
(* One address, one verification link, one login and four calls. *)
EXTENDS Passkeys, TLC

CONSTANTS e1, l1, s1, c1, c2, c3, c4

CallSymmetry == Permutations(Calls)
=============================================================================
