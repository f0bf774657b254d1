--------------------------- MODULE MCOAuthTokens ----------------------------
(* One sign-in, and a few calls of the token endpoint. *)
EXTENDS OAuthTokens, TLC

CONSTANTS u1, client1, client2, f1, c1, c2, c3, c4

AllOfTheFirst == [f \in Flows |-> client1]
CallSymmetry == Permutations(Calls)
=============================================================================
