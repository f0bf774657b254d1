-------------------------- MODULE MCUsageRecorder ---------------------------
EXTENDS UsageRecorder, TLC

CONSTANTS w1, w2, u1, u2

Symmetric == {p @@ q : p \in Permutations(Workers), q \in Permutations(Users)}
=============================================================================
