---------------------------- MODULE MCUserReconcile ----------------------------
EXTENDS UserReconcile, TLC
CONSTANTS u1, u2, p1, p2, f1, t1, t2

OneUser == u1 :> p1

Symmetry == Permutations(Tasks)
=============================================================================
