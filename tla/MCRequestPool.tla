---------------------------- MODULE MCRequestPool ----------------------------
EXTENDS RequestPool

CONSTANTS t1, t2, c1, c2, r1, r2, r3
=============================================================================
