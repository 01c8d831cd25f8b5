----------------------------- MODULE MCSessionApi -----------------------------
EXTENDS SessionApi
CONSTANTS d1, d2, l1, t1, t2
=============================================================================
