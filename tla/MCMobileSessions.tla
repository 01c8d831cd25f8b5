-------------------------- MODULE MCMobileSessions --------------------------
EXTENDS MobileSessions, TLC
CONSTANTS d1, c1, c2, c3, k1, k2

Symmetry == Permutations(Challenges) \cup Permutations(Calls)
=============================================================================
