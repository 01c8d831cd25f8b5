---------------------------- MODULE MCServerMonitor ----------------------------
EXTENDS ServerMonitor, TLC

CONSTANTS t1, t2

Symmetry == Permutations(Tasks)
=============================================================================
