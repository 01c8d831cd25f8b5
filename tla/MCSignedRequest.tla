-------------------------- MODULE MCSignedRequest --------------------------
EXTENDS SignedRequest, TLC

CONSTANTS r1, w1, w2

\* A client whose clock is one unit ahead of the server's, after transit.
ClientAhead == -1

Symmetry == Permutations(Workers)
=============================================================================
